---------------------------- MODULE Spec2Model ----------------------------
(***************************************************************************)
(* A model of the GraphEval claim-verification and repair pipeline:        *)
(* extraction normalisation (parse_extraction_response, the REBEL          *)
(* converter and the demo's multi-pass aggregation), the judge             *)
(* (detect_hallucinations), the correction engine (correct_hallucinations) *)
(* the repairer (replace_triples) and the orchestrator                     *)
(* (GraphEvalPipeline.run).                                                *)
(*                                                                         *)
(* Text is a sequence of characters, so that str.strip and str.replace act  *)
(* on characters as they do in Python.  An ASCII character is the          *)
(* one-character string; any other character is the string "U+hhhh" of its *)
(* code point in upper-case hexadecimal (U+2003 is "U+2003", e-acute is    *)
(* "U+00E9"), so that a text does not depend on how the module's bytes are *)
(* decoded; so is the grave accent, "U+0060", which a string of this       *)
(* notation cannot hold.  Scores and thresholds are hundredths (0.5 is 50, *)
(* 1.0 is 100).                                                            *)
(***************************************************************************)
EXTENDS Integers, Sequences, FiniteSets, TLC

VARIABLES
    entry,                   \* the function the external caller invoked
    kwargs,                  \* the threshold keyword arguments the caller passes to it
    pc,                      \* position of the single thread of control
    error,                   \* the exception that reached the caller ("none" if none)
    llm_output,              \* GraphEvalPipeline.run parameter
    context,                 \* reference context (run / detect / correct parameter)
    calls,                   \* backend calls made so far, in order
    response_text,           \* parse_extraction_response parameter (decoded form)
    extraction,              \* ExtractionResult, <<>> while there is none
    triples,                 \* detect_hallucinations parameter / extraction.triples
    contradiction_threshold, \* detect_hallucinations parameter
    neutral_threshold,       \* detect_hallucinations parameter
    judgements,              \* value returned by detect_hallucinations
    cb_results,              \* value returned by classify_batch, <<>> while none
    hallucinations,          \* hallucinated triples (run local, correct/replace parameter)
    ch_index,                \* correct_hallucinations loop position in hallucinations
    results,                 \* correct_hallucinations local accumulator
    entity_refs,             \* the Entity objects of each result's corrected triple
    corrected_triple_objs,   \* value returned by correct_hallucinations
    corrected_triples,       \* replace_triples parameter (run's corrected_only)
    original_output,         \* replace_triples parameter
    rt_corrected_output,     \* replace_triples local corrected_output
    k,                       \* replace_triples loop position in zip(...)
    substitutions,           \* number of str.replace calls replace_triples has made
    corrected_output,        \* value returned by replace_triples / run local
    report,                  \* PipelineResult returned by run, <<>> while there is none
    sentences,               \* demo main: number of sentences still to process
    all_triples,             \* demo main accumulator
    all_entities,            \* demo main accumulator: ordered dict text -> Entity
    kg_result,               \* demo main: the ExtractionResult built, <<>> while none
    decoded,                 \* _parse_rebel_output parameter: the decoded model output
    triplets,                \* value returned by _parse_rebel_output
    json_file,               \* what save_kg_to_json wrote, <<>> while nothing
    directed,                \* build_networkx_graph parameter
    G                        \* build_networkx_graph local / returned graph, <<>> while none

vars == <<entry, kwargs, pc, error, llm_output, context, calls, response_text, extraction,
          triples, contradiction_threshold, neutral_threshold, judgements, cb_results,
          hallucinations, ch_index, results, entity_refs, corrected_triple_objs,
          corrected_triples,
          original_output, rt_corrected_output, k, substitutions,
          corrected_output, report, sentences, all_triples, all_entities, kg_result,
          decoded, triplets, json_file, directed, G>>

runVars     == <<llm_output, report>>
extractVars == <<response_text, extraction>>
detectVars  == <<triples, contradiction_threshold, neutral_threshold, judgements,
                 cb_results>>
correctVars == <<hallucinations, ch_index, results, entity_refs, corrected_triple_objs>>
replaceVars == <<corrected_triples, original_output, rt_corrected_output, k,
                 substitutions, corrected_output>>
demoVars    == <<sentences, all_triples, all_entities, kg_result, decoded, triplets>>
graphVars   == <<json_file, directed, G>>

---------------------------------------------------------------------------
(* Bounds of the model.                                                    *)

\* longest hallucination / correction list handed to replace_triples directly
MaxPairs == 2
\* longest triple list handed to detect_hallucinations / correct_hallucinations
MaxTriples == 2
\* most entity records and most triple records in one extraction response
MaxRecords == 2
\* most sentences (extraction passes) the demo aggregates
MaxSentences == 2
\* triplet segments in a decoded REBEL output
MaxSegments == 2

---------------------------------------------------------------------------
(* Sequences and text.                                                     *)

Range(s) == { s[i] : i \in DOMAIN s }

\* all sequences over S of length 0..n
SeqsUpTo(S, n) == UNION { [1..m -> S] : m \in 0..n }

Min(a, b) == IF a <= b THEN a ELSE b

\* text[i .. i+Len(old)-1] = old
MatchAt(text, old, i) ==
    /\ i + Len(old) - 1 <= Len(text)
    /\ \A j \in 1..Len(old) : text[i + j - 1] = old[j]

IsSubstring(old, text) == \E i \in 1..(Len(text) + 1) : MatchAt(text, old, i)

\* str.isspace of one character, as str.strip() and the \s of re use it, the
\* 29 characters: \t \n \r \f and the blank, U+000B and U+001C..U+001F (ASCII,
\* written as the characters themselves), and U+0085, U+00A0, U+1680,
\* U+2000..U+200A, U+2028, U+2029, U+202F, U+205F, U+3000
IsWhitespace(c) ==
    c \in {" ", "\n", "\t", "\r", "\f", "", "", "", "", "",
           "U+0085", "U+00A0", "U+1680",
           "U+2000", "U+2001", "U+2002", "U+2003", "U+2004", "U+2005", "U+2006",
           "U+2007", "U+2008", "U+2009", "U+200A",
           "U+2028", "U+2029", "U+202F", "U+205F", "U+3000"}

RECURSIVE lstrip(_)
lstrip(s) == IF s # <<>> /\ IsWhitespace(Head(s)) THEN lstrip(Tail(s)) ELSE s

RECURSIVE rstrip(_)
rstrip(s) ==
    IF s # <<>> /\ IsWhitespace(s[Len(s)]) THEN rstrip(SubSeq(s, 1, Len(s) - 1)) ELSE s

\* str.strip(): leading and trailing whitespace removed
strip(s) == rstrip(lstrip(s))

\* the text from position i on, every occurrence of old replaced: the text up
\* to the leftmost occurrence at or after i is kept, the scan resumes behind it
RECURSIVE ReplaceFrom(_, _, _, _)
ReplaceFrom(text, old, new, i) ==
    LET found == { j \in i..Len(text) : MatchAt(text, old, j) }
    IN  IF found = {} THEN SubSeq(text, i, Len(text))
        ELSE LET at == CHOOSE j \in found : \A y \in found : j <= y
             IN  SubSeq(text, i, at - 1) \o new \o ReplaceFrom(text, old, new, at + Len(old))

RECURSIVE Interleave(_, _)
Interleave(text, new) ==
    IF text = <<>> THEN new ELSE new \o <<Head(text)>> \o Interleave(Tail(text), new)

\* str.replace(old, new): every non-overlapping occurrence, leftmost first;
\* an empty old matches before every character and at the end
str_replace(text, old, new) ==
    IF old = <<>> THEN Interleave(text, new) ELSE ReplaceFrom(text, old, new, 1)

---------------------------------------------------------------------------
(* Claim model: src/grapheval/models/entities.py                           *)

\* Entity.type default
NoType == "None"

\* RelationTriple.confidence default (1.0)
DefaultConfidence == 100

Entity(text, type) == [text |-> text, type |-> type]

RelationTriple(head, relation, tail) ==
    [head |-> head, relation |-> relation, tail |-> tail, confidence |-> DefaultConfidence]

\* a triple over untyped entities, for writing inputs down
T(h, r, t) == RelationTriple(Entity(h, NoType), r, Entity(t, NoType))

---------------------------------------------------------------------------
(* Output repairer: src/grapheval/hallucination_correction/replacer.py     *)

triple_to_sentence(triple) ==
    triple.head.text \o <<" ">> \o triple.relation \o <<" ">> \o triple.tail.text

\* the guard of replace_triples: both lists have the same length
SilentlyTruncating(hs, cs) == TRUE
LengthsAgree(hs, cs) == Len(hs) = Len(cs)

\* zip(hallucinations, corrected_triples) stops at the shorter list
ZipLen(hs, cs) == Min(Len(hs), Len(cs))

\* one iteration of the loop body over the pair (old_triple, new_triple):
\* the text built so far, after the pair
ReplacePair(built, old_triple, new_triple) ==
    LET old_sentence == triple_to_sentence(old_triple)
        new_sentence == triple_to_sentence(new_triple)
    IN  IF old_sentence = <<>> THEN built
        ELSE str_replace(built, old_sentence, new_sentence)

\* replace_triples, entry: the length guard, then corrected_output = original_output
ReplaceEnter ==
    /\ pc = "replace_triples"
    /\ IF LengthsAgree(hallucinations, corrected_triples)
       THEN /\ rt_corrected_output' = original_output
            /\ k' = 1
            /\ pc' = "replace_loop"
            /\ error' = error
       ELSE /\ pc' = "raised"
            /\ error' = "ValueError"
            /\ UNCHANGED <<rt_corrected_output, k>>
    /\ UNCHANGED <<entry, kwargs, graphVars, runVars, context, calls, extractVars, detectVars, correctVars,
                   corrected_triples, original_output, substitutions, corrected_output,
                   demoVars>>

\* the same step with the replacement made in the pristine input
ReplaceStepInPristine ==
    /\ pc = "replace_loop"
    /\ k <= ZipLen(hallucinations, corrected_triples)
    /\ rt_corrected_output' =
           ReplacePair(original_output, hallucinations[k], corrected_triples[k])
    /\ substitutions' = substitutions + 1
    /\ k' = k + 1
    /\ UNCHANGED <<entry, kwargs, graphVars, pc, error, runVars, context, calls, extractVars, detectVars,
                   correctVars, corrected_triples, original_output, corrected_output,
                   demoVars>>

\* replace_triples, one iteration of the for loop
ReplaceStep ==
    /\ pc = "replace_loop"
    /\ k <= ZipLen(hallucinations, corrected_triples)
    /\ rt_corrected_output' =
           ReplacePair(rt_corrected_output, hallucinations[k], corrected_triples[k])
    /\ substitutions' =
           IF triple_to_sentence(hallucinations[k]) = <<>>
           THEN substitutions ELSE substitutions + 1
    /\ k' = k + 1
    /\ UNCHANGED <<entry, kwargs, graphVars, pc, error, runVars, context, calls, extractVars, detectVars,
                   correctVars, corrected_triples, original_output, corrected_output,
                   demoVars>>

\* replace_triples, return corrected_output (to run, or to the external caller)
ReplaceReturn ==
    /\ pc = "replace_loop"
    /\ k > ZipLen(hallucinations, corrected_triples)
    /\ corrected_output' = rt_corrected_output
    /\ pc' = IF entry = "run" THEN "run_report" ELSE "done"
    /\ UNCHANGED <<entry, kwargs, graphVars, error, runVars, context, calls, extractVars, detectVars,
                   correctVars, corrected_triples, original_output, rt_corrected_output,
                   k, substitutions, demoVars>>

---------------------------------------------------------------------------
(* Verification judge: src/grapheval/hallucination_detection               *)

\* score_map's keys, in insertion order (nli_client.py)
CanonicalLabels == <<"entailment", "contradiction", "neutral">>

\* the label chosen whatever the scores are
best_label_fixed(scores) == CanonicalLabels[1]

\* max(score_map.items(), key=lambda kv: kv[1])[0]: the first label, in
\* insertion order, whose score is maximal
best_label(scores) ==
    LET present == { i \in 1..Len(CanonicalLabels) : CanonicalLabels[i] \in DOMAIN scores }
        i == CHOOSE x \in present :
                 /\ \A y \in present : scores[CanonicalLabels[y]] <= scores[CanonicalLabels[x]]
                 /\ \A y \in present :
                        scores[CanonicalLabels[y]] = scores[CanonicalLabels[x]] => x <= y
    IN  CanonicalLabels[i]

NLIResult(label, scores) == [label |-> label, scores |-> scores]

TripleNLIJudgement(triple, nli_result, flag) ==
    [triple |-> triple, nli_result |-> nli_result, is_hallucination |-> flag]

\* detect_hallucinations' default thresholds (0.5)
DefaultContradictionThreshold == 50
DefaultNeutralThreshold == 50

\* the hypothesis without its final period
verbalize_without_period(triple) ==
    triple.head.text \o <<" ">> \o triple.relation \o <<" ">> \o triple.tail.text

verbalize_triple(triple) ==
    triple.head.text \o <<" ">> \o triple.relation \o <<" ">> \o triple.tail.text \o <<".">>

\* dict.get(key, default)
dict_get(dict, key, default) == IF key \in DOMAIN dict THEN dict[key] ELSE default

\* the threshold policy with strict comparisons
is_hallucination_strict(scores, c_threshold, n_threshold) ==
    \/ dict_get(scores, "contradiction", 0) > c_threshold
    \/ dict_get(scores, "neutral", 0) > n_threshold

\* the threshold policy of detect_hallucinations
is_hallucination(scores, c_threshold, n_threshold) ==
    LET contradiction_score == dict_get(scores, "contradiction", 0)
        neutral_score == dict_get(scores, "neutral", 0)
    IN  contradiction_score >= c_threshold \/ neutral_score >= n_threshold

\* pairs = [(context, h) for h in hypotheses]
detect_pairs(ts, ctx) == [ i \in 1..Len(ts) |-> <<ctx, verbalize_triple(ts[i])>> ]

\* judgements kept only for the flagged triples
detect_only_flagged(ts, nli_results, c_threshold, n_threshold) ==
    LET all == [ i \in 1..ZipLen(ts, nli_results) |->
                   TripleNLIJudgement(ts[i], nli_results[i],
                       is_hallucination(nli_results[i].scores, c_threshold, n_threshold)) ]
    IN  SelectSeq(all, LAMBDA j : j.is_hallucination)

\* the loop of detect_hallucinations over zip(triples, results), where
\* nli_results is what classify_batch returned
detect_hallucinations(ts, nli_results, c_threshold, n_threshold) ==
    [ i \in 1..ZipLen(ts, nli_results) |->
        TripleNLIJudgement(ts[i], nli_results[i],
            is_hallucination(nli_results[i].scores, c_threshold, n_threshold)) ]

---------------------------------------------------------------------------
(* Backend responses, as json.loads sees them.                             *)
(*   [kind |-> "undecodable"]           json.loads raises JSONDecodeError  *)
(*   [kind |-> "array"]                 decodes, but not to an object      *)
(*   [kind |-> "object", fields |-> f]  decodes to the dict f              *)
(* A JSON value is a string or null.                                       *)

JStr(s) == [json |-> "string", s |-> s]
JNull == [json |-> "null"]

\* str(value): a str is itself, None is "None"
py_str(v) == IF v.json = "string" THEN v.s ELSE <<"N", "o", "n", "e">>

Raised(exc) == [raised |-> exc, value |-> <<>>]
Returned(v) == [raised |-> "none", value |-> <<v>>]

---------------------------------------------------------------------------
(* Classifier clients: src/grapheval/hallucination_detection/nli_client.py *)

UpperLetters == <<"A", "B", "C", "D", "E", "F", "G", "H", "I", "J", "K", "L", "M",
                  "N", "O", "P", "Q", "R", "S", "T", "U", "V", "W", "X", "Y", "Z">>
LowerLetters == <<"a", "b", "c", "d", "e", "f", "g", "h", "i", "j", "k", "l", "m",
                  "n", "o", "p", "q", "r", "s", "t", "u", "v", "w", "x", "y", "z">>

\* The case tables of Unicode 14.0.0 that str.lower uses, as ranges of code
\* points. lower: every character other than U+03A3 that str.lower changes,
\* with the characters it becomes. cased: the characters that are cased and
\* not case-ignorable. ignorable: the case-ignorable characters. (The last
\* two decide how U+03A3, the capital sigma, is lowered.)
CaseTables ==
    LET hex == <<"0", "1", "2", "3", "4", "5", "6", "7",
                 "8", "9", "A", "B", "C", "D", "E", "F">>
        \* the character of code point n, for n of 128 or more
        char(n) ==
            LET digit(place) == hex[((n \div (16 ^ place)) % 16) + 1]
            IN  "U+" \o (IF n >= 16 ^ 5 THEN digit(5) ELSE "")
                     \o (IF n >= 16 ^ 4 THEN digit(4) ELSE "")
                     \o digit(3) \o digit(2) \o digit(1) \o digit(0)
        \* the characters of the ranges r: first and last code point of each
        chars(r) ==
            UNION { { char(n) : n \in r[2 * span - 1]..r[2 * span] } : span \in 1..(Len(r) \div 2) }
        letters(l) == { l[i] : i \in 1..Len(l) }
        \* of each range: the first and the last code point, the step from one
        \* to the next, and the lower case of the first; the lower case of a
        \* later one is as far from it as the first's is
        lowering == <<
            \h00C0, \h00D6, 1, \h00E0, \h00D8, \h00DE, 1, \h00F8, \h0100, \h012E, 2, \h0101,
            \h0132, \h0136, 2, \h0133, \h0139, \h0147, 2, \h013A, \h014A, \h0176, 2, \h014B,
            \h0178, \h0178, 1, \h00FF, \h0179, \h017D, 2, \h017A, \h0181, \h0181, 1, \h0253,
            \h0182, \h0184, 2, \h0183, \h0186, \h0186, 1, \h0254, \h0187, \h0187, 1, \h0188,
            \h0189, \h018A, 1, \h0256, \h018B, \h018B, 1, \h018C, \h018E, \h018E, 1, \h01DD,
            \h018F, \h018F, 1, \h0259, \h0190, \h0190, 1, \h025B, \h0191, \h0191, 1, \h0192,
            \h0193, \h0193, 1, \h0260, \h0194, \h0194, 1, \h0263, \h0196, \h0196, 1, \h0269,
            \h0197, \h0197, 1, \h0268, \h0198, \h0198, 1, \h0199, \h019C, \h019C, 1, \h026F,
            \h019D, \h019D, 1, \h0272, \h019F, \h019F, 1, \h0275, \h01A0, \h01A4, 2, \h01A1,
            \h01A6, \h01A6, 1, \h0280, \h01A7, \h01A7, 1, \h01A8, \h01A9, \h01A9, 1, \h0283,
            \h01AC, \h01AC, 1, \h01AD, \h01AE, \h01AE, 1, \h0288, \h01AF, \h01AF, 1, \h01B0,
            \h01B1, \h01B2, 1, \h028A, \h01B3, \h01B5, 2, \h01B4, \h01B7, \h01B7, 1, \h0292,
            \h01B8, \h01B8, 1, \h01B9, \h01BC, \h01BC, 1, \h01BD, \h01C4, \h01C4, 1, \h01C6,
            \h01C5, \h01C5, 1, \h01C6, \h01C7, \h01C7, 1, \h01C9, \h01C8, \h01C8, 1, \h01C9,
            \h01CA, \h01CA, 1, \h01CC, \h01CB, \h01DB, 2, \h01CC, \h01DE, \h01EE, 2, \h01DF,
            \h01F1, \h01F1, 1, \h01F3, \h01F2, \h01F4, 2, \h01F3, \h01F6, \h01F6, 1, \h0195,
            \h01F7, \h01F7, 1, \h01BF, \h01F8, \h021E, 2, \h01F9, \h0220, \h0220, 1, \h019E,
            \h0222, \h0232, 2, \h0223, \h023A, \h023A, 1, \h2C65, \h023B, \h023B, 1, \h023C,
            \h023D, \h023D, 1, \h019A, \h023E, \h023E, 1, \h2C66, \h0241, \h0241, 1, \h0242,
            \h0243, \h0243, 1, \h0180, \h0244, \h0244, 1, \h0289, \h0245, \h0245, 1, \h028C,
            \h0246, \h024E, 2, \h0247, \h0370, \h0372, 2, \h0371, \h0376, \h0376, 1, \h0377,
            \h037F, \h037F, 1, \h03F3, \h0386, \h0386, 1, \h03AC, \h0388, \h038A, 1, \h03AD,
            \h038C, \h038C, 1, \h03CC, \h038E, \h038F, 1, \h03CD, \h0391, \h03A1, 1, \h03B1,
            \h03A4, \h03AB, 1, \h03C4, \h03CF, \h03CF, 1, \h03D7, \h03D8, \h03EE, 2, \h03D9,
            \h03F4, \h03F4, 1, \h03B8, \h03F7, \h03F7, 1, \h03F8, \h03F9, \h03F9, 1, \h03F2,
            \h03FA, \h03FA, 1, \h03FB, \h03FD, \h03FF, 1, \h037B, \h0400, \h040F, 1, \h0450,
            \h0410, \h042F, 1, \h0430, \h0460, \h0480, 2, \h0461, \h048A, \h04BE, 2, \h048B,
            \h04C0, \h04C0, 1, \h04CF, \h04C1, \h04CD, 2, \h04C2, \h04D0, \h052E, 2, \h04D1,
            \h0531, \h0556, 1, \h0561, \h10A0, \h10C5, 1, \h2D00, \h10C7, \h10C7, 1, \h2D27,
            \h10CD, \h10CD, 1, \h2D2D, \h13A0, \h13EF, 1, \hAB70, \h13F0, \h13F5, 1, \h13F8,
            \h1C90, \h1CBA, 1, \h10D0, \h1CBD, \h1CBF, 1, \h10FD, \h1E00, \h1E94, 2, \h1E01,
            \h1E9E, \h1E9E, 1, \h00DF, \h1EA0, \h1EFE, 2, \h1EA1, \h1F08, \h1F0F, 1, \h1F00,
            \h1F18, \h1F1D, 1, \h1F10, \h1F28, \h1F2F, 1, \h1F20, \h1F38, \h1F3F, 1, \h1F30,
            \h1F48, \h1F4D, 1, \h1F40, \h1F59, \h1F5F, 2, \h1F51, \h1F68, \h1F6F, 1, \h1F60,
            \h1F88, \h1F8F, 1, \h1F80, \h1F98, \h1F9F, 1, \h1F90, \h1FA8, \h1FAF, 1, \h1FA0,
            \h1FB8, \h1FB9, 1, \h1FB0, \h1FBA, \h1FBB, 1, \h1F70, \h1FBC, \h1FBC, 1, \h1FB3,
            \h1FC8, \h1FCB, 1, \h1F72, \h1FCC, \h1FCC, 1, \h1FC3, \h1FD8, \h1FD9, 1, \h1FD0,
            \h1FDA, \h1FDB, 1, \h1F76, \h1FE8, \h1FE9, 1, \h1FE0, \h1FEA, \h1FEB, 1, \h1F7A,
            \h1FEC, \h1FEC, 1, \h1FE5, \h1FF8, \h1FF9, 1, \h1F78, \h1FFA, \h1FFB, 1, \h1F7C,
            \h1FFC, \h1FFC, 1, \h1FF3, \h2126, \h2126, 1, \h03C9, \h212B, \h212B, 1, \h00E5,
            \h2132, \h2132, 1, \h214E, \h2160, \h216F, 1, \h2170, \h2183, \h2183, 1, \h2184,
            \h24B6, \h24CF, 1, \h24D0, \h2C00, \h2C2F, 1, \h2C30, \h2C60, \h2C60, 1, \h2C61,
            \h2C62, \h2C62, 1, \h026B, \h2C63, \h2C63, 1, \h1D7D, \h2C64, \h2C64, 1, \h027D,
            \h2C67, \h2C6B, 2, \h2C68, \h2C6D, \h2C6D, 1, \h0251, \h2C6E, \h2C6E, 1, \h0271,
            \h2C6F, \h2C6F, 1, \h0250, \h2C70, \h2C70, 1, \h0252, \h2C72, \h2C72, 1, \h2C73,
            \h2C75, \h2C75, 1, \h2C76, \h2C7E, \h2C7F, 1, \h023F, \h2C80, \h2CE2, 2, \h2C81,
            \h2CEB, \h2CED, 2, \h2CEC, \h2CF2, \h2CF2, 1, \h2CF3, \hA640, \hA66C, 2, \hA641,
            \hA680, \hA69A, 2, \hA681, \hA722, \hA72E, 2, \hA723, \hA732, \hA76E, 2, \hA733,
            \hA779, \hA77B, 2, \hA77A, \hA77D, \hA77D, 1, \h1D79, \hA77E, \hA786, 2, \hA77F,
            \hA78B, \hA78B, 1, \hA78C, \hA78D, \hA78D, 1, \h0265, \hA790, \hA792, 2, \hA791,
            \hA796, \hA7A8, 2, \hA797, \hA7AA, \hA7AA, 1, \h0266, \hA7AB, \hA7AB, 1, \h025C,
            \hA7AC, \hA7AC, 1, \h0261, \hA7AD, \hA7AD, 1, \h026C, \hA7AE, \hA7AE, 1, \h026A,
            \hA7B0, \hA7B0, 1, \h029E, \hA7B1, \hA7B1, 1, \h0287, \hA7B2, \hA7B2, 1, \h029D,
            \hA7B3, \hA7B3, 1, \hAB53, \hA7B4, \hA7C2, 2, \hA7B5, \hA7C4, \hA7C4, 1, \hA794,
            \hA7C5, \hA7C5, 1, \h0282, \hA7C6, \hA7C6, 1, \h1D8E, \hA7C7, \hA7C9, 2, \hA7C8,
            \hA7D0, \hA7D0, 1, \hA7D1, \hA7D6, \hA7D8, 2, \hA7D7, \hA7F5, \hA7F5, 1, \hA7F6,
            \hFF21, \hFF3A, 1, \hFF41, \h10400, \h10427, 1, \h10428, \h104B0, \h104D3, 1, \h104D8,
            \h10570, \h1057A, 1, \h10597, \h1057C, \h1058A, 1, \h105A3, \h1058C, \h10592, 1, \h105B3,
            \h10594, \h10595, 1, \h105BB, \h10C80, \h10CB2, 1, \h10CC0, \h118A0, \h118BF, 1, \h118C0,
            \h16E40, \h16E5F, 1, \h16E60, \h1E900, \h1E921, 1, \h1E922 >>
        cased_ranges == <<
            \h00AA, \h00AA, \h00B5, \h00B5, \h00BA, \h00BA, \h00C0, \h00D6, \h00D8, \h00F6,
            \h00F8, \h01BA, \h01BC, \h01BF, \h01C4, \h0293, \h0295, \h02AF, \h0370, \h0373,
            \h0376, \h0377, \h037B, \h037D, \h037F, \h037F, \h0386, \h0386, \h0388, \h038A,
            \h038C, \h038C, \h038E, \h03A1, \h03A3, \h03F5, \h03F7, \h0481, \h048A, \h052F,
            \h0531, \h0556, \h0560, \h0588, \h10A0, \h10C5, \h10C7, \h10C7, \h10CD, \h10CD,
            \h10D0, \h10FA, \h10FD, \h10FF, \h13A0, \h13F5, \h13F8, \h13FD, \h1C80, \h1C88,
            \h1C90, \h1CBA, \h1CBD, \h1CBF, \h1D00, \h1D2B, \h1D6B, \h1D77, \h1D79, \h1D9A,
            \h1E00, \h1F15, \h1F18, \h1F1D, \h1F20, \h1F45, \h1F48, \h1F4D, \h1F50, \h1F57,
            \h1F59, \h1F59, \h1F5B, \h1F5B, \h1F5D, \h1F5D, \h1F5F, \h1F7D, \h1F80, \h1FB4,
            \h1FB6, \h1FBC, \h1FBE, \h1FBE, \h1FC2, \h1FC4, \h1FC6, \h1FCC, \h1FD0, \h1FD3,
            \h1FD6, \h1FDB, \h1FE0, \h1FEC, \h1FF2, \h1FF4, \h1FF6, \h1FFC, \h2102, \h2102,
            \h2107, \h2107, \h210A, \h2113, \h2115, \h2115, \h2119, \h211D, \h2124, \h2124,
            \h2126, \h2126, \h2128, \h2128, \h212A, \h212D, \h212F, \h2134, \h2139, \h2139,
            \h213C, \h213F, \h2145, \h2149, \h214E, \h214E, \h2160, \h217F, \h2183, \h2184,
            \h24B6, \h24E9, \h2C00, \h2C7B, \h2C7E, \h2CE4, \h2CEB, \h2CEE, \h2CF2, \h2CF3,
            \h2D00, \h2D25, \h2D27, \h2D27, \h2D2D, \h2D2D, \hA640, \hA66D, \hA680, \hA69B,
            \hA722, \hA76F, \hA771, \hA787, \hA78B, \hA78E, \hA790, \hA7CA, \hA7D0, \hA7D1,
            \hA7D3, \hA7D3, \hA7D5, \hA7D9, \hA7F5, \hA7F6, \hA7FA, \hA7FA, \hAB30, \hAB5A,
            \hAB60, \hAB68, \hAB70, \hABBF, \hFB00, \hFB06, \hFB13, \hFB17, \hFF21, \hFF3A,
            \hFF41, \hFF5A, \h10400, \h1044F, \h104B0, \h104D3, \h104D8, \h104FB, \h10570, \h1057A,
            \h1057C, \h1058A, \h1058C, \h10592, \h10594, \h10595, \h10597, \h105A1, \h105A3, \h105B1,
            \h105B3, \h105B9, \h105BB, \h105BC, \h10C80, \h10CB2, \h10CC0, \h10CF2, \h118A0, \h118DF,
            \h16E40, \h16E7F, \h1D400, \h1D454, \h1D456, \h1D49C, \h1D49E, \h1D49F, \h1D4A2, \h1D4A2,
            \h1D4A5, \h1D4A6, \h1D4A9, \h1D4AC, \h1D4AE, \h1D4B9, \h1D4BB, \h1D4BB, \h1D4BD, \h1D4C3,
            \h1D4C5, \h1D505, \h1D507, \h1D50A, \h1D50D, \h1D514, \h1D516, \h1D51C, \h1D51E, \h1D539,
            \h1D53B, \h1D53E, \h1D540, \h1D544, \h1D546, \h1D546, \h1D54A, \h1D550, \h1D552, \h1D6A5,
            \h1D6A8, \h1D6C0, \h1D6C2, \h1D6DA, \h1D6DC, \h1D6FA, \h1D6FC, \h1D714, \h1D716, \h1D734,
            \h1D736, \h1D74E, \h1D750, \h1D76E, \h1D770, \h1D788, \h1D78A, \h1D7A8, \h1D7AA, \h1D7C2,
            \h1D7C4, \h1D7CB, \h1DF00, \h1DF09, \h1DF0B, \h1DF1E, \h1E900, \h1E943, \h1F130, \h1F149,
            \h1F150, \h1F169, \h1F170, \h1F189 >>
        ignorable_ranges == <<
            \h00A8, \h00A8, \h00AD, \h00AD, \h00AF, \h00AF, \h00B4, \h00B4, \h00B7, \h00B8,
            \h02B0, \h036F, \h0374, \h0375, \h037A, \h037A, \h0384, \h0385, \h0387, \h0387,
            \h0483, \h0489, \h0559, \h0559, \h055F, \h055F, \h0591, \h05BD, \h05BF, \h05BF,
            \h05C1, \h05C2, \h05C4, \h05C5, \h05C7, \h05C7, \h05F4, \h05F4, \h0600, \h0605,
            \h0610, \h061A, \h061C, \h061C, \h0640, \h0640, \h064B, \h065F, \h0670, \h0670,
            \h06D6, \h06DD, \h06DF, \h06E8, \h06EA, \h06ED, \h070F, \h070F, \h0711, \h0711,
            \h0730, \h074A, \h07A6, \h07B0, \h07EB, \h07F5, \h07FA, \h07FA, \h07FD, \h07FD,
            \h0816, \h082D, \h0859, \h085B, \h0888, \h0888, \h0890, \h0891, \h0898, \h089F,
            \h08C9, \h0902, \h093A, \h093A, \h093C, \h093C, \h0941, \h0948, \h094D, \h094D,
            \h0951, \h0957, \h0962, \h0963, \h0971, \h0971, \h0981, \h0981, \h09BC, \h09BC,
            \h09C1, \h09C4, \h09CD, \h09CD, \h09E2, \h09E3, \h09FE, \h09FE, \h0A01, \h0A02,
            \h0A3C, \h0A3C, \h0A41, \h0A42, \h0A47, \h0A48, \h0A4B, \h0A4D, \h0A51, \h0A51,
            \h0A70, \h0A71, \h0A75, \h0A75, \h0A81, \h0A82, \h0ABC, \h0ABC, \h0AC1, \h0AC5,
            \h0AC7, \h0AC8, \h0ACD, \h0ACD, \h0AE2, \h0AE3, \h0AFA, \h0AFF, \h0B01, \h0B01,
            \h0B3C, \h0B3C, \h0B3F, \h0B3F, \h0B41, \h0B44, \h0B4D, \h0B4D, \h0B55, \h0B56,
            \h0B62, \h0B63, \h0B82, \h0B82, \h0BC0, \h0BC0, \h0BCD, \h0BCD, \h0C00, \h0C00,
            \h0C04, \h0C04, \h0C3C, \h0C3C, \h0C3E, \h0C40, \h0C46, \h0C48, \h0C4A, \h0C4D,
            \h0C55, \h0C56, \h0C62, \h0C63, \h0C81, \h0C81, \h0CBC, \h0CBC, \h0CBF, \h0CBF,
            \h0CC6, \h0CC6, \h0CCC, \h0CCD, \h0CE2, \h0CE3, \h0D00, \h0D01, \h0D3B, \h0D3C,
            \h0D41, \h0D44, \h0D4D, \h0D4D, \h0D62, \h0D63, \h0D81, \h0D81, \h0DCA, \h0DCA,
            \h0DD2, \h0DD4, \h0DD6, \h0DD6, \h0E31, \h0E31, \h0E34, \h0E3A, \h0E46, \h0E4E,
            \h0EB1, \h0EB1, \h0EB4, \h0EBC, \h0EC6, \h0EC6, \h0EC8, \h0ECD, \h0F18, \h0F19,
            \h0F35, \h0F35, \h0F37, \h0F37, \h0F39, \h0F39, \h0F71, \h0F7E, \h0F80, \h0F84,
            \h0F86, \h0F87, \h0F8D, \h0F97, \h0F99, \h0FBC, \h0FC6, \h0FC6, \h102D, \h1030,
            \h1032, \h1037, \h1039, \h103A, \h103D, \h103E, \h1058, \h1059, \h105E, \h1060,
            \h1071, \h1074, \h1082, \h1082, \h1085, \h1086, \h108D, \h108D, \h109D, \h109D,
            \h10FC, \h10FC, \h135D, \h135F, \h1712, \h1714, \h1732, \h1733, \h1752, \h1753,
            \h1772, \h1773, \h17B4, \h17B5, \h17B7, \h17BD, \h17C6, \h17C6, \h17C9, \h17D3,
            \h17D7, \h17D7, \h17DD, \h17DD, \h180B, \h180F, \h1843, \h1843, \h1885, \h1886,
            \h18A9, \h18A9, \h1920, \h1922, \h1927, \h1928, \h1932, \h1932, \h1939, \h193B,
            \h1A17, \h1A18, \h1A1B, \h1A1B, \h1A56, \h1A56, \h1A58, \h1A5E, \h1A60, \h1A60,
            \h1A62, \h1A62, \h1A65, \h1A6C, \h1A73, \h1A7C, \h1A7F, \h1A7F, \h1AA7, \h1AA7,
            \h1AB0, \h1ACE, \h1B00, \h1B03, \h1B34, \h1B34, \h1B36, \h1B3A, \h1B3C, \h1B3C,
            \h1B42, \h1B42, \h1B6B, \h1B73, \h1B80, \h1B81, \h1BA2, \h1BA5, \h1BA8, \h1BA9,
            \h1BAB, \h1BAD, \h1BE6, \h1BE6, \h1BE8, \h1BE9, \h1BED, \h1BED, \h1BEF, \h1BF1,
            \h1C2C, \h1C33, \h1C36, \h1C37, \h1C78, \h1C7D, \h1CD0, \h1CD2, \h1CD4, \h1CE0,
            \h1CE2, \h1CE8, \h1CED, \h1CED, \h1CF4, \h1CF4, \h1CF8, \h1CF9, \h1D2C, \h1D6A,
            \h1D78, \h1D78, \h1D9B, \h1DFF, \h1FBD, \h1FBD, \h1FBF, \h1FC1, \h1FCD, \h1FCF,
            \h1FDD, \h1FDF, \h1FED, \h1FEF, \h1FFD, \h1FFE, \h200B, \h200F, \h2018, \h2019,
            \h2024, \h2024, \h2027, \h2027, \h202A, \h202E, \h2060, \h2064, \h2066, \h206F,
            \h2071, \h2071, \h207F, \h207F, \h2090, \h209C, \h20D0, \h20F0, \h2C7C, \h2C7D,
            \h2CEF, \h2CF1, \h2D6F, \h2D6F, \h2D7F, \h2D7F, \h2DE0, \h2DFF, \h2E2F, \h2E2F,
            \h3005, \h3005, \h302A, \h302D, \h3031, \h3035, \h303B, \h303B, \h3099, \h309E,
            \h30FC, \h30FE, \hA015, \hA015, \hA4F8, \hA4FD, \hA60C, \hA60C, \hA66F, \hA672,
            \hA674, \hA67D, \hA67F, \hA67F, \hA69C, \hA69F, \hA6F0, \hA6F1, \hA700, \hA721,
            \hA770, \hA770, \hA788, \hA78A, \hA7F2, \hA7F4, \hA7F8, \hA7F9, \hA802, \hA802,
            \hA806, \hA806, \hA80B, \hA80B, \hA825, \hA826, \hA82C, \hA82C, \hA8C4, \hA8C5,
            \hA8E0, \hA8F1, \hA8FF, \hA8FF, \hA926, \hA92D, \hA947, \hA951, \hA980, \hA982,
            \hA9B3, \hA9B3, \hA9B6, \hA9B9, \hA9BC, \hA9BD, \hA9CF, \hA9CF, \hA9E5, \hA9E6,
            \hAA29, \hAA2E, \hAA31, \hAA32, \hAA35, \hAA36, \hAA43, \hAA43, \hAA4C, \hAA4C,
            \hAA70, \hAA70, \hAA7C, \hAA7C, \hAAB0, \hAAB0, \hAAB2, \hAAB4, \hAAB7, \hAAB8,
            \hAABE, \hAABF, \hAAC1, \hAAC1, \hAADD, \hAADD, \hAAEC, \hAAED, \hAAF3, \hAAF4,
            \hAAF6, \hAAF6, \hAB5B, \hAB5F, \hAB69, \hAB6B, \hABE5, \hABE5, \hABE8, \hABE8,
            \hABED, \hABED, \hFB1E, \hFB1E, \hFBB2, \hFBC2, \hFE00, \hFE0F, \hFE13, \hFE13,
            \hFE20, \hFE2F, \hFE52, \hFE52, \hFE55, \hFE55, \hFEFF, \hFEFF, \hFF07, \hFF07,
            \hFF0E, \hFF0E, \hFF1A, \hFF1A, \hFF3E, \hFF3E, \hFF40, \hFF40, \hFF70, \hFF70,
            \hFF9E, \hFF9F, \hFFE3, \hFFE3, \hFFF9, \hFFFB, \h101FD, \h101FD, \h102E0, \h102E0,
            \h10376, \h1037A, \h10780, \h10785, \h10787, \h107B0, \h107B2, \h107BA, \h10A01, \h10A03,
            \h10A05, \h10A06, \h10A0C, \h10A0F, \h10A38, \h10A3A, \h10A3F, \h10A3F, \h10AE5, \h10AE6,
            \h10D24, \h10D27, \h10EAB, \h10EAC, \h10F46, \h10F50, \h10F82, \h10F85, \h11001, \h11001,
            \h11038, \h11046, \h11070, \h11070, \h11073, \h11074, \h1107F, \h11081, \h110B3, \h110B6,
            \h110B9, \h110BA, \h110BD, \h110BD, \h110C2, \h110C2, \h110CD, \h110CD, \h11100, \h11102,
            \h11127, \h1112B, \h1112D, \h11134, \h11173, \h11173, \h11180, \h11181, \h111B6, \h111BE,
            \h111C9, \h111CC, \h111CF, \h111CF, \h1122F, \h11231, \h11234, \h11234, \h11236, \h11237,
            \h1123E, \h1123E, \h112DF, \h112DF, \h112E3, \h112EA, \h11300, \h11301, \h1133B, \h1133C,
            \h11340, \h11340, \h11366, \h1136C, \h11370, \h11374, \h11438, \h1143F, \h11442, \h11444,
            \h11446, \h11446, \h1145E, \h1145E, \h114B3, \h114B8, \h114BA, \h114BA, \h114BF, \h114C0,
            \h114C2, \h114C3, \h115B2, \h115B5, \h115BC, \h115BD, \h115BF, \h115C0, \h115DC, \h115DD,
            \h11633, \h1163A, \h1163D, \h1163D, \h1163F, \h11640, \h116AB, \h116AB, \h116AD, \h116AD,
            \h116B0, \h116B5, \h116B7, \h116B7, \h1171D, \h1171F, \h11722, \h11725, \h11727, \h1172B,
            \h1182F, \h11837, \h11839, \h1183A, \h1193B, \h1193C, \h1193E, \h1193E, \h11943, \h11943,
            \h119D4, \h119D7, \h119DA, \h119DB, \h119E0, \h119E0, \h11A01, \h11A0A, \h11A33, \h11A38,
            \h11A3B, \h11A3E, \h11A47, \h11A47, \h11A51, \h11A56, \h11A59, \h11A5B, \h11A8A, \h11A96,
            \h11A98, \h11A99, \h11C30, \h11C36, \h11C38, \h11C3D, \h11C3F, \h11C3F, \h11C92, \h11CA7,
            \h11CAA, \h11CB0, \h11CB2, \h11CB3, \h11CB5, \h11CB6, \h11D31, \h11D36, \h11D3A, \h11D3A,
            \h11D3C, \h11D3D, \h11D3F, \h11D45, \h11D47, \h11D47, \h11D90, \h11D91, \h11D95, \h11D95,
            \h11D97, \h11D97, \h11EF3, \h11EF4, \h13430, \h13438, \h16AF0, \h16AF4, \h16B30, \h16B36,
            \h16B40, \h16B43, \h16F4F, \h16F4F, \h16F8F, \h16F9F, \h16FE0, \h16FE1, \h16FE3, \h16FE4,
            \h1AFF0, \h1AFF3, \h1AFF5, \h1AFFB, \h1AFFD, \h1AFFE, \h1BC9D, \h1BC9E, \h1BCA0, \h1BCA3,
            \h1CF00, \h1CF2D, \h1CF30, \h1CF46, \h1D167, \h1D169, \h1D173, \h1D182, \h1D185, \h1D18B,
            \h1D1AA, \h1D1AD, \h1D242, \h1D244, \h1DA00, \h1DA36, \h1DA3B, \h1DA6C, \h1DA75, \h1DA75,
            \h1DA84, \h1DA84, \h1DA9B, \h1DA9F, \h1DAA1, \h1DAAF, \h1E000, \h1E006, \h1E008, \h1E018,
            \h1E01B, \h1E021, \h1E023, \h1E024, \h1E026, \h1E02A, \h1E130, \h1E13D, \h1E2AE, \h1E2AE,
            \h1E2EC, \h1E2EF, \h1E8D0, \h1E8D6, \h1E944, \h1E94B, \h1F3FB, \h1F3FF, \hE0001, \hE0001,
            \hE0020, \hE007F, \hE0100, \hE01EF >>
        pairs ==
            UNION { { <<char(n), <<char(lowering[4 * span] + n - lowering[4 * span - 3])>>>> :
                      n \in { m \in lowering[4 * span - 3]..lowering[4 * span - 2] :
                                 (m - lowering[4 * span - 3]) % lowering[4 * span - 1] = 0 } } :
                    span \in 1..(Len(lowering) \div 4) }
            \cup { <<UpperLetters[i], <<LowerLetters[i]>>>> : i \in 1..Len(UpperLetters) }
            \cup { <<"U+0130", <<"i", "U+0307">>>>, <<"U+212A", <<"k">>>> }
    IN  [lower |-> [c \in { p[1] : p \in pairs } |-> (CHOOSE p \in pairs : p[1] = c)[2]],
         cased |-> letters(UpperLetters) \cup letters(LowerLetters) \cup chars(cased_ranges),
         ignorable |-> {"'", ".", ":", "^", "U+0060"} \cup chars(ignorable_ranges)]

\* str.lower: every character is replaced by its lower-case characters; the
\* capital sigma U+03A3 becomes the final sigma U+03C2 when a cased character
\* comes before it and none after it, case-ignorable characters skipped, and
\* the small sigma U+03C3 otherwise. The case tables are read by name, through
\* table
lower(s) ==
    LET table(name) == CaseTables[name]
        lowering(of(_)) ==
            LET before(i) == { j \in 1..(i - 1) : s[j] \notin of("ignorable") }
                after(i) == { j \in (i + 1)..Len(s) : s[j] \notin of("ignorable") }
                final_sigma(i) ==
                    /\ before(i) # {}
                    /\ s[CHOOSE j \in before(i) : \A y \in before(i) : y <= j]
                           \in of("cased")
                    /\ \/ after(i) = {}
                       \/ s[CHOOSE j \in after(i) : \A y \in after(i) : j <= y]
                             \notin of("cased")
                lowered(i) ==
                    IF s[i] = "U+03A3"
                    THEN IF final_sigma(i) THEN <<"U+03C2">> ELSE <<"U+03C3">>
                    ELSE IF s[i] \in DOMAIN of("lower")
                    THEN of("lower")[s[i]]
                    ELSE <<s[i]>>
                upto[n \in 0..Len(s)] ==
                    IF n = 0 THEN <<>> ELSE upto[n - 1] \o lowered(n)
            IN  upto[Len(s)]
    IN  lowering(table)

\* the upper-case spelling of a text of the letters a-z (the upper-case keys
\* of self._label_mapping)
upper(s) ==
    [ i \in 1..Len(s) |->
        IF \E j \in 1..Len(LowerLetters) : LowerLetters[j] = s[i]
        THEN UpperLetters[CHOOSE j \in 1..Len(LowerLetters) : LowerLetters[j] = s[i]]
        ELSE s[i] ]

\* the canonical labels, spelled out
LabelSpelling ==
    [entailment    |-> <<"e", "n", "t", "a", "i", "l", "m", "e", "n", "t">>,
     contradiction |-> <<"c", "o", "n", "t", "r", "a", "d", "i", "c", "t", "i", "o", "n">>,
     neutral       |-> <<"n", "e", "u", "t", "r", "a", "l">>]

\* self._label_mapping: the lower-case and the upper-case spelling of each
\* canonical label map to it
label_mapping ==
    { <<LabelSpelling[name], LabelSpelling[name]>> : name \in Range(CanonicalLabels) }
        \cup { <<upper(LabelSpelling[name]), LabelSpelling[name]>> :
                  name \in Range(CanonicalLabels) }

\* an unexpected label counted as neutral
canonical_label_defaulting(label) ==
    LET mapped == IF \E kv \in label_mapping : kv[1] = label
                  THEN (CHOOSE kv \in label_mapping : kv[1] = label)[2]
                  ELSE lower(label)
    IN  IF \E name \in Range(CanonicalLabels) : LabelSpelling[name] = mapped
        THEN Returned(CHOOSE name \in Range(CanonicalLabels) : LabelSpelling[name] = mapped)
        ELSE Returned("neutral")

\* _canonical_label (the same in NLIClient and LLMNLIClient)
canonical_label(label) ==
    LET mapped == IF \E kv \in label_mapping : kv[1] = label
                  THEN (CHOOSE kv \in label_mapping : kv[1] = label)[2]
                  ELSE lower(label)
    IN  IF \E name \in Range(CanonicalLabels) : LabelSpelling[name] = mapped
        THEN Returned(CHOOSE name \in Range(CanonicalLabels) : LabelSpelling[name] = mapped)
        ELSE Raised("ValueError")

\* score_map = {"entailment": 0.0, "contradiction": 0.0, "neutral": 0.0}
ZeroScores == [entailment |-> 0, contradiction |-> 0, neutral |-> 0]

\* NLIClient.classify_batch, inner loop: score_map after the first n items
\* of one pair's scores
RECURSIVE score_items(_, _)
score_items(scores_for_pair, n) ==
    IF n = 0 THEN Returned(ZeroScores)
    ELSE LET before == score_items(scores_for_pair, n - 1)
             canonical == canonical_label(scores_for_pair[n].label)
         IN  IF before.raised # "none" THEN before
             ELSE IF canonical.raised # "none" THEN Raised(canonical.raised)
             ELSE Returned([before.value[1] EXCEPT ![canonical.value[1]] =
                                                        scores_for_pair[n].score])

\* NLIClient.classify_batch, outer loop: results after the first n pairs
RECURSIVE NLIClient_results(_, _)
NLIClient_results(outputs, n) ==
    IF n = 0 THEN Returned(<<>>)
    ELSE LET before == NLIClient_results(outputs, n - 1)
             score_map == score_items(outputs[n], Len(outputs[n]))
         IN  IF before.raised # "none" THEN before
             ELSE IF score_map.raised # "none" THEN Raised(score_map.raised)
             ELSE Returned(Append(before.value[1],
                                  NLIResult(best_label(score_map.value[1]),
                                            score_map.value[1])))

\* NLIClient.classify_batch on the outputs the model pipeline returned
NLIClient_classify_batch(outputs) == NLIClient_results(outputs, Len(outputs))

\* inputs = [{"text": p, "text_pair": h} for p, h in pairs]
pipe_inputs(pairs) == [ i \in 1..Len(pairs) |-> [text |-> pairs[i][1], text_pair |-> pairs[i][2]] ]

\* LLMNLIClient._build_prompt: the parts of the prompt that vary
build_prompt(premise, hypothesis) ==
    [prompt |-> "nli", premise |-> premise, hypothesis |-> hypothesis]

\* a parse that spreads the scores: 0.4 on the label, 0.3 on the other two
LLMNLIClient_parse_response_soft(response) ==
    IF response.kind = "undecodable" THEN Raised("ValueError")
    ELSE IF response.kind # "object" THEN Raised("AttributeError")
    ELSE LET raw_label == strip(py_str(dict_get(response.fields, "label", JStr(<<>>))))
             canonical == canonical_label(raw_label)
         IN  IF raw_label = <<>> THEN Raised("ValueError")
             ELSE IF canonical.raised # "none" THEN Raised(canonical.raised)
             ELSE Returned(NLIResult(canonical.value[1],
                                     [ l \in DOMAIN ZeroScores |->
                                         IF l = canonical.value[1] THEN 40 ELSE 30 ]))

\* LLMNLIClient._parse_response
LLMNLIClient_parse_response(response) ==
    IF response.kind = "undecodable" THEN Raised("ValueError")
    ELSE IF response.kind # "object" THEN Raised("AttributeError")
    ELSE LET raw_label == strip(py_str(dict_get(response.fields, "label", JStr(<<>>))))
             canonical == canonical_label(raw_label)
         IN  IF raw_label = <<>> THEN Raised("ValueError")
             ELSE IF canonical.raised # "none" THEN Raised(canonical.raised)
             ELSE Returned(NLIResult(canonical.value[1],
                                     [ZeroScores EXCEPT ![canonical.value[1]] = 100]))

\* LLMNLIClient.classify_batch: [self.classify(p, h) for p, h in pairs], where
\* responses[i] is what the backend answers to the i-th request; made is the
\* number of requests made
RECURSIVE LLMNLIClient_results(_, _)
LLMNLIClient_results(responses, n) ==
    IF n = 0 THEN [raised |-> "none", value |-> <<<<>>>>, made |-> 0]
    ELSE LET before == LLMNLIClient_results(responses, n - 1)
             parsed == LLMNLIClient_parse_response(responses[n])
         IN  IF before.raised # "none" THEN before
             ELSE IF parsed.raised # "none"
                  THEN [raised |-> parsed.raised, value |-> <<>>, made |-> n]
                  ELSE [raised |-> "none",
                        value |-> <<Append(before.value[1], parsed.value[1])>>,
                        made |-> n]

---------------------------------------------------------------------------
(* Correction engine: src/grapheval/hallucination_correction/corrector.py  *)

\* a correction written over its original
CorrectedTripleOverwriting(original, corrected) ==
    [original |-> corrected, corrected |-> corrected]

CorrectedTriple(original, corrected) == [original |-> original, corrected |-> corrected]

\* the parts of the prompt that vary: the context and the triple sentence
build_correction_prompt(triple, ctx) ==
    [prompt |-> "correction",
     ctx |-> ctx,
     triple_text |-> triple.head.text \o <<" ">> \o triple.relation \o <<" ">>
                        \o triple.tail.text \o <<".">>]

\* a decode failure answered with the original triple
parse_defaulting_to_original(raw, original) ==
    IF raw.kind # "object" THEN Returned(original)
    ELSE LET data == raw.fields
             head_text == strip(py_str(dict_get(data, "head", JStr(original.head.text))))
             relation_text == strip(py_str(dict_get(data, "relation", JStr(original.relation))))
             tail_text == strip(py_str(dict_get(data, "tail", JStr(original.tail.text))))
         IN  Returned(RelationTriple(Entity(head_text, original.head.type), relation_text,
                                     Entity(tail_text, original.tail.type)))

\* missing fields answered with the empty string
parse_without_fallback(raw, original) ==
    IF raw.kind = "undecodable" THEN Raised("ValueError")
    ELSE IF raw.kind # "object" THEN Raised("AttributeError")
    ELSE LET data == raw.fields
             head_text == strip(py_str(dict_get(data, "head", JStr(<<>>))))
             relation_text == strip(py_str(dict_get(data, "relation", JStr(<<>>))))
             tail_text == strip(py_str(dict_get(data, "tail", JStr(<<>>))))
         IN  Returned(RelationTriple(Entity(head_text, original.head.type), relation_text,
                                     Entity(tail_text, original.tail.type)))

\* _parse_single_corrected_triple
parse_single_corrected_triple(raw, original) ==
    IF raw.kind = "undecodable" THEN Raised("ValueError")
    ELSE IF raw.kind # "object" THEN Raised("AttributeError")
    ELSE LET data == raw.fields
             head_text == strip(py_str(dict_get(data, "head", JStr(original.head.text))))
             relation_text == strip(py_str(dict_get(data, "relation", JStr(original.relation))))
             tail_text == strip(py_str(dict_get(data, "tail", JStr(original.tail.text))))
             head == Entity(head_text, original.head.type)
             tail == Entity(tail_text, original.tail.type)
         IN  Returned(RelationTriple(head, relation_text, tail))

\* the Entity object the caller of correct_hallucinations holds as the head or
\* the tail (role) of the i-th hallucinated triple
original_entity_ref(i, role) == [made_by |-> "caller", call |-> i, role |-> role]

\* the Entity object constructed for role by the i-th call of
\* _parse_single_corrected_triple: Entity(text=..., type=...)
constructed_entity_ref(i, role) ==
    [made_by |-> "_parse_single_corrected_triple", call |-> i, role |-> role]

\* the original's Entity object kept where the corrected text is the
\* original's text
corrected_entity_refs_reusing(corrected, original, i) ==
    [head |-> IF corrected.head.text = original.head.text
              THEN original_entity_ref(i, "head") ELSE constructed_entity_ref(i, "head"),
     tail |-> IF corrected.tail.text = original.tail.text
              THEN original_entity_ref(i, "tail") ELSE constructed_entity_ref(i, "tail")]

\* the Entity objects of the triple the i-th call of
\* _parse_single_corrected_triple returns: both are constructed by the call
corrected_entity_refs(corrected, original, i) ==
    [head |-> constructed_entity_ref(i, "head"),
     tail |-> constructed_entity_ref(i, "tail")]

\* the exception _parse_single_corrected_triple raises for raw and original:
\* its type and the parts of its message; json.loads words its detail from the
\* response text alone, and data.get on a value that is not an object fails
\* with the interpreter's own message
corrected_triple_exception(raw, original) ==
    IF raw.kind = "undecodable"
    THEN [type |-> "ValueError",
          message |-> <<"Failed to parse corrected triple as JSON: ", "JSONDecodeError">>]
    ELSE [type |-> "AttributeError",
          message |-> <<"object has no attribute 'get'">>]

---------------------------------------------------------------------------
(* A Python dict, in insertion order: a sequence of [key, value] with no   *)
(* key twice.                                                              *)

\* a membership test that never finds the key
od_never_has(dict, key) == FALSE

\* key in dict
od_has(dict, key) == \E i \in 1..Len(dict) : dict[i].key = key

\* dict[key]
od_get(dict, key) == dict[CHOOSE i \in 1..Len(dict) : dict[i].key = key].value

\* dict[key] = value: a new key goes last, a known key keeps its place
od_set(dict, key, value) ==
    IF od_has(dict, key)
    THEN [ i \in 1..Len(dict) |->
             IF dict[i].key = key THEN [key |-> key, value |-> value] ELSE dict[i] ]
    ELSE Append(dict, [key |-> key, value |-> value])

\* the dict after dict.setdefault(key, value)
od_setdefault(dict, key, value) ==
    IF od_has(dict, key) THEN dict ELSE Append(dict, [key |-> key, value |-> value])

\* list(dict.values())
od_values(dict) == [ i \in 1..Len(dict) |-> dict[i].value ]

---------------------------------------------------------------------------
(* Extraction normalizer: src/grapheval/kg_construction/llm_extractor.py   *)

ExtractionResult(entities, ts) == [entities |-> entities, triples |-> ts]

\* the part of the prompt that varies: the answer text
build_extraction_prompt(answer) == [prompt |-> "extraction", answer_text |-> answer]

\* a loop in which every record with a text writes its entity, also over an
\* entity of the same text
RECURSIVE entities_loop_overwriting(_, _)
entities_loop_overwriting(items, n) ==
    IF n = 0 THEN [raised |-> "none", dict |-> <<>>]
    ELSE LET before == entities_loop_overwriting(items, n - 1)
             item == items[n]
             raw == dict_get(item, "text", JStr(<<>>))
             text == strip(raw.s)
             ent_type == dict_get(item, "type", NoType)
         IN  IF before.raised # "none" THEN before
             ELSE IF raw.json # "string"
             THEN [raised |-> "AttributeError", dict |-> before.dict]
             ELSE IF text = <<>> THEN before
             ELSE [raised |-> "none",
                   dict |-> od_set(before.dict, text, Entity(text, ent_type))]

\* entities_by_text after the first n items of data["entities"], or the
\* exception the loop raised: item.get("text", "") is the field's value, the
\* empty text only when the field is absent, and .strip() of a value that is
\* not text (a JSON null) raises AttributeError
RECURSIVE entities_loop(_, _)
entities_loop(items, n) ==
    IF n = 0 THEN [raised |-> "none", dict |-> <<>>]
    ELSE LET before == entities_loop(items, n - 1)
             item == items[n]
             raw == dict_get(item, "text", JStr(<<>>))
             text == strip(raw.s)
             ent_type == dict_get(item, "type", NoType)
         IN  IF before.raised # "none" THEN before
             ELSE IF raw.json # "string"
             THEN [raised |-> "AttributeError", dict |-> before.dict]
             ELSE IF text = <<>> THEN before
             ELSE IF ~od_has(before.dict, text)
                  THEN [raised |-> "none",
                        dict |-> od_set(before.dict, text, Entity(text, ent_type))]
                  ELSE before

\* [entities_by_text, triples] after the first n items of data["triples"], or
\* the exception the loop raised: the three fields are read and stripped in
\* the order head, tail, relation, and .strip() of a value that is not text
\* (a JSON null) raises AttributeError
RECURSIVE triples_loop(_, _, _)
triples_loop(items, n, dict0) ==
    IF n = 0 THEN [raised |-> "none", dict |-> dict0, triples |-> <<>>]
    ELSE LET before == triples_loop(items, n - 1, dict0)
             item == items[n]
             raw_head == dict_get(item, "head", JStr(<<>>))
             raw_tail == dict_get(item, "tail", JStr(<<>>))
             raw_relation == dict_get(item, "relation", JStr(<<>>))
             head_text == strip(raw_head.s)
             tail_text == strip(raw_tail.s)
             relation == strip(raw_relation.s)
         IN  IF before.raised # "none" THEN before
             ELSE IF \/ raw_head.json # "string"
                     \/ raw_tail.json # "string"
                     \/ raw_relation.json # "string"
             THEN [before EXCEPT !.raised = "AttributeError"]
             ELSE IF head_text = <<>> \/ tail_text = <<>> \/ relation = <<>> THEN before
             ELSE LET d1 == od_setdefault(before.dict, head_text, Entity(head_text, NoType))
                      head == od_get(d1, head_text)
                      d2 == od_setdefault(d1, tail_text, Entity(tail_text, NoType))
                      tail == od_get(d2, tail_text)
                  IN  [raised |-> "none",
                       dict |-> d2,
                       triples |-> Append(before.triples,
                                          RelationTriple(head, relation, tail))]

\* a response that does not decode to an object answered with an empty
\* extraction
parse_extraction_swallowing(response) ==
    IF response.kind # "object" THEN Returned(ExtractionResult(<<>>, <<>>))
    ELSE LET entities_data == dict_get(response.fields, "entities", <<>>)
             triples_data == dict_get(response.fields, "triples", <<>>)
             entities_by_text == entities_loop(entities_data, Len(entities_data))
             done == triples_loop(triples_data, Len(triples_data), entities_by_text.dict)
         IN  IF entities_by_text.raised # "none" THEN Raised(entities_by_text.raised)
             ELSE IF done.raised # "none" THEN Raised(done.raised)
             ELSE Returned(ExtractionResult(od_values(done.dict), done.triples))

\* parse_extraction_response on a response with
\*   fields = [entities |-> items, triples |-> items]
\* where the text, head, relation and tail of an item are JSON values
parse_extraction_response(response) ==
    IF response.kind = "undecodable" THEN Raised("ValueError")
    ELSE IF response.kind # "object" THEN Raised("AttributeError")
    ELSE LET entities_data == dict_get(response.fields, "entities", <<>>)
             triples_data == dict_get(response.fields, "triples", <<>>)
             entities_by_text == entities_loop(entities_data, Len(entities_data))
             done == triples_loop(triples_data, Len(triples_data), entities_by_text.dict)
         IN  IF entities_by_text.raised # "none" THEN Raised(entities_by_text.raised)
             ELSE IF done.raised # "none" THEN Raised(done.raised)
             ELSE Returned(ExtractionResult(od_values(done.dict), done.triples))

---------------------------------------------------------------------------
(* REBEL converter: src/grapheval/kg_construction/rebel_extractor.py       *)

\* the special tokens of the decoded output
BosToken     == <<"<", "s", ">">>
EosToken     == <<"<", "/", "s", ">">>
PadToken     == <<"<", "p", "a", "d", ">">>
TripletToken == <<"<", "t", "r", "i", "p", "l", "e", "t", ">">>
SubjToken    == <<"<", "s", "u", "b", "j", ">">>
ObjToken     == <<"<", "o", "b", "j", ">">>

\* text.replace("<s>", "").replace("</s>", "").replace("<pad>", "")
\*     .replace("<triplet>", "|").strip()
remove_special_tokens(text) ==
    strip(str_replace(str_replace(str_replace(str_replace(text, BosToken, <<>>),
                                              EosToken, <<>>),
                                  PadToken, <<>>),
                      TripletToken, <<"|">>))

\* the number of characters from position i on that are outside excluded
\* (the longest match of a negated character class)
ClassRun(text, i, excluded) ==
    LET stops == { j \in i..Len(text) : text[j] \in excluded }
    IN  IF stops = {} THEN Len(text) + 1 - i
        ELSE (CHOOSE j \in stops : \A y \in stops : j <= y) - i

\* the number of whitespace characters from position i on (\s*)
SpaceRun(text, i) ==
    LET stops == { j \in i..Len(text) : ~IsWhitespace(text[j]) }
    IN  IF stops = {} THEN Len(text) + 1 - i
        ELSE (CHOOSE j \in stops : \A y \in stops : j <= y) - i

\* the lookahead without its triplet-start alternative: (?=\s*(?:<subj>|$))
LookaheadWithoutTripletStart(text, i) ==
    LET q == i + SpaceRun(text, i)
    IN  \/ q = Len(text) + 1
        \/ MatchAt(text, SubjToken, q)

\* the lookahead (?=\s*(?:<subj>|\||$)) at position i
Lookahead(text, i) ==
    LET q == i + SpaceRun(text, i)
    IN  \/ q = Len(text) + 1
        \/ MatchAt(text, SubjToken, q)
        \/ q <= Len(text) /\ text[q] = "|"

\* the relation group and the end of the match, after <obj> ends before
\* position i: \s* takes the whitespace, ([^<]+?) the fewest characters after
\* which the lookahead holds; if there are none, \s* gives one whitespace
\* character back to the group
RelationGroup(text, i) ==
    LET m == SpaceRun(text, i)
        from == i + m
        ends == { e \in (from + 1)..(from + ClassRun(text, from, {"<"})) :
                     Lookahead(text, e) }
    IN  IF ends # {}
        THEN [ok |-> TRUE, from |-> from, end |-> CHOOSE e \in ends : \A y \in ends : e <= y]
        ELSE IF m >= 1 /\ Lookahead(text, from)
             THEN [ok |-> TRUE, from |-> from - 1, end |-> from]
             ELSE [ok |-> FALSE, from |-> from, end |-> from]

\* the regular expression
\*   ([^<|]+)\s*<subj>\s*([^<]+)\s*<obj>\s*([^<]+?)(?=\s*(?:<subj>|\||$))
\* tried at position i: whether it matches, its three groups and the position
\* after the match
pattern_match(text, i) ==
    LET h == ClassRun(text, i, {"<", "|"})
        s2 == i + h + Len(SubjToken)
        t == ClassRun(text, s2, {"<"})
        \* the \s* after <subj> takes the whitespace, but leaves ([^<]+) one
        \* character when there is nothing else before the next "<"
        m2 == SpaceRun(text, s2)
        from2 == IF m2 < t THEN s2 + m2 ELSE s2 + t - 1
        s3 == s2 + t + Len(ObjToken)
        rel == RelationGroup(text, s3)
    IN  IF /\ h >= 1
           /\ MatchAt(text, SubjToken, i + h)
           /\ t >= 1
           /\ MatchAt(text, ObjToken, s2 + t)
           /\ rel.ok
        THEN [ok |-> TRUE,
              group1 |-> SubSeq(text, i, i + h - 1),
              group2 |-> SubSeq(text, from2, s2 + t - 1),
              group3 |-> SubSeq(text, rel.from, rel.end - 1),
              end |-> rel.end]
        ELSE [ok |-> FALSE]

\* re.finditer(pattern, text), scanning from position i: the matches, leftmost
\* first, without overlap
RECURSIVE finditer(_, _)
finditer(text, i) ==
    LET starts == { j \in i..Len(text) : pattern_match(text, j).ok }
    IN  IF starts = {} THEN <<>>
        ELSE LET match == pattern_match(text, CHOOSE j \in starts : \A y \in starts : j <= y)
             IN  <<match>> \o finditer(text, match.end)

\* group.strip(), then .replace("|", "").strip()
clean_group(group) == strip(str_replace(strip(group), <<"|">>, <<>>))

\* if head and tail and relation_type: triplets.append({...})
emit_if_complete(head, tail, relation_type) ==
    IF head # <<>> /\ tail # <<>> /\ relation_type # <<>>
    THEN <<[head |-> head, type |-> relation_type, tail |-> tail]>>
    ELSE <<>>

\* a loop that leaves out a record equal to one already emitted
RECURSIVE rebel_records_distinct(_, _)
rebel_records_distinct(matches, n) ==
    IF n = 0 THEN <<>>
    ELSE LET before == rebel_records_distinct(matches, n - 1)
             new == emit_if_complete(clean_group(matches[n].group1),
                                     clean_group(matches[n].group2),
                                     clean_group(matches[n].group3))
         IN  IF \E i \in 1..Len(before) : <<before[i]>> = new THEN before
             ELSE before \o new

\* the for loop over the matches: the records of the first n matches
RECURSIVE rebel_records(_, _)
rebel_records(matches, n) ==
    IF n = 0 THEN <<>>
    ELSE rebel_records(matches, n - 1)
             \o emit_if_complete(clean_group(matches[n].group1),
                                 clean_group(matches[n].group2),
                                 clean_group(matches[n].group3))

\* RebelExtractor._parse_rebel_output
parse_rebel_output(text) ==
    LET matches == finditer(remove_special_tokens(text), 1)
    IN  rebel_records(matches, Len(matches))

\* extract_relations on the raw triplets extract_triplets returned: entities
\* are untyped, one Entity per text (entity_cache)
extract_relations(raw_triplets) ==
    [ i \in 1..Len(raw_triplets) |->
        RelationTriple(Entity(raw_triplets[i].head, NoType),
                       raw_triplets[i].type,
                       Entity(raw_triplets[i].tail, NoType)) ]

---------------------------------------------------------------------------
(* Multi-pass aggregation: src/examples/kg_demo_from_document.py           *)

\* all_entities after the first n triples of one pass
RECURSIVE collect_entities(_, _, _)
collect_entities(dict0, ts, n) ==
    IF n = 0 THEN dict0
    ELSE LET dict == collect_entities(dict0, ts, n - 1)
             d1 == od_set(dict, ts[n].head.text, ts[n].head)
         IN  od_set(d1, ts[n].tail.text, ts[n].tail)

---------------------------------------------------------------------------
(* Inputs.                                                                 *)

X == <<"X">>
Y == <<"Y">>
Z == <<"Z">>
\* relations: w(rote), a(uthored)
w == <<"w">>
a == <<"a">>

\* the reference context handed to run / detect / correct
Contexts == { <<"c">>, <<"d">> }

\* triples judged hallucinated and the corrections proposed for them, as handed
\* to replace_triples by an external caller
\* the degenerate triple: empty head text, empty relation, empty tail text
DegenerateTriple == T(<<>>, <<>>, <<>>)

ReplaceHallucinations == { T(X, w, Y), T(Y, w, Z), T(Z, w, Z), DegenerateTriple }
ReplaceCorrections    == { T(X, a, Y), T(X, w, Z), T(Z, a, Z) }

\* "X w Y. Y w Z.", "X w Y.  Y w Z." (two spaces), "X w Y w Z",
\* "X w Y. X w Y.", "Z a Z"
ReplaceTexts ==
    { triple_to_sentence(T(X, w, Y)) \o <<".", " ">> \o triple_to_sentence(T(Y, w, Z)) \o <<".">>,
      triple_to_sentence(T(X, w, Y)) \o <<".", " ", " ">> \o triple_to_sentence(T(Y, w, Z)) \o <<".">>,
      triple_to_sentence(T(X, w, Y)) \o <<" ">> \o w \o <<" ">> \o Z,
      triple_to_sentence(T(X, w, Y)) \o <<".", " ">> \o triple_to_sentence(T(X, w, Y)) \o <<".">>,
      triple_to_sentence(T(Z, a, Z)) }

\* triples handed to detect_hallucinations / correct_hallucinations by an
\* external caller
JudgedTriples == { T(X, w, Y), T(Y, w, Z) }

\* thresholds a caller supplies
Thresholds == { 40, 50, 51 }

\* the threshold keyword arguments a caller passes to detect_hallucinations:
\* none, one of the two, or both
DetectKwargs ==
    UNION { [ keys -> Thresholds ] :
              keys \in SUBSET {"contradiction_threshold", "neutral_threshold"} }

\* the threshold keyword arguments a caller passes to GraphEvalPipeline.run:
\* none, a neutral threshold of 0.4, or both thresholds
RunKwargs ==
    { <<>>,
      [neutral_threshold |-> 40],
      [contradiction_threshold |-> 51, neutral_threshold |-> 40] }

Dist(e, c, n) == [entailment |-> e, contradiction |-> c, neutral |-> n]

\* the distributions an injected classifier answers with; the last one lacks
\* the contradiction and neutral keys
Distributions ==
    { Dist(100, 0, 0), Dist(50, 50, 0), Dist(2, 49, 49), Dist(60, 0, 40),
      Dist(0, 0, 100), [entailment |-> 100] }

\* the NLIResults a classifier returns: the label is the best label
NLIResults == { NLIResult(best_label(sc), sc) : sc \in Distributions }

\* labels as the inference backends spell them: "Neutral", "LABEL_0", "maybe"
MixedNeutral == <<"N">> \o Tail(LabelSpelling.neutral)
Label0 == <<"L", "A", "B", "E", "L", "_", "0">>
Maybe == <<"m", "a", "y", "b", "e">>

\* what the transformers pipeline returns for one pair: all three labels in
\* upper case; the top label alone; a tie, one label in mixed case; a label
\* the client does not know, after a known one and alone; ENTAILMENT spelled
\* with U+00C9 (E acute) first, which no label is the lower case of
PipeOutputs ==
    { << [label |-> upper(LabelSpelling.entailment), score |-> 60],
         [label |-> upper(LabelSpelling.neutral), score |-> 40],
         [label |-> upper(LabelSpelling.contradiction), score |-> 0] >>,
      << [label |-> LabelSpelling.contradiction, score |-> 100] >>,
      << [label |-> MixedNeutral, score |-> 50],
         [label |-> LabelSpelling.entailment, score |-> 50] >>,
      << [label |-> upper(LabelSpelling.entailment), score |-> 30],
         [label |-> Label0, score |-> 70] >>,
      << [label |-> Label0, score |-> 100] >>,
      << [label |-> <<"U+00C9">> \o Tail(upper(LabelSpelling.entailment)), score |-> 100] >> }

\* what the LLM backend answers to an NLI request: not JSON; a JSON array; no
\* label field; a null, an empty, a known, a padded upper-case, a mixed-case
\* and an unknown label
LLMLabelResponses ==
    { [kind |-> "undecodable"],
      [kind |-> "array"],
      [kind |-> "object", fields |-> <<>>],
      [kind |-> "object", fields |-> [label |-> JNull]],
      [kind |-> "object", fields |-> [label |-> JStr(<<>>)]],
      [kind |-> "object", fields |-> [label |-> JStr(LabelSpelling.entailment)]],
      [kind |-> "object",
       fields |-> [label |-> JStr(<<" ">> \o upper(LabelSpelling.neutral) \o <<" ">>)]],
      [kind |-> "object",
       fields |-> [label |-> JStr(<<"C">> \o Tail(LabelSpelling.contradiction))]],
      [kind |-> "object", fields |-> [label |-> JStr(Maybe)]] }

\* One call of classify_batch(pairs) is the outcome (the results returned or
\* the exception raised) and the backend calls the client made, in order.
\* An injected classifier answers one NLIResult per pair.
StubRuns(pairs) ==
    { [outcome |-> Returned(r), backend |-> <<>>] : r \in [1..Len(pairs) -> NLIResults] }

\* NLIClient.classify_batch: one call of the transformers pipeline
NLIClientRuns(pairs) ==
    { [outcome |-> NLIClient_classify_batch(outputs),
       backend |-> << [fn |-> "pipe", arg |-> pipe_inputs(pairs), returned |-> outputs] >>] :
          outputs \in [1..Len(pairs) -> PipeOutputs] }

\* LLMNLIClient.classify_batch: one complete request per pair, up to the first
\* response that cannot be used
LLMNLIClientRuns(pairs) ==
    { LET run == LLMNLIClient_results(responses, Len(pairs))
      IN  [outcome |-> [raised |-> run.raised, value |-> run.value],
           backend |-> [ i \in 1..run.made |->
                           [fn |-> "complete",
                            arg |-> build_prompt(pairs[i][1], pairs[i][2]),
                            returned |-> responses[i]] ]] :
          responses \in [1..Len(pairs) -> LLMLabelResponses] }

\* the classifier handed to detect_hallucinations is any of the three
ClassifierRuns(pairs) == StubRuns(pairs) \cup NLIClientRuns(pairs) \cup LLMNLIClientRuns(pairs)

\* the text of a triplet segment, after its <triplet> token:
\* " h <subj> t <obj> r"
SegmentText(h, t, r) ==
    <<" ">> \o h \o <<" ">> \o SubjToken \o <<" ">> \o t \o <<" ">> \o ObjToken
        \o <<" ">> \o r

\* triplet segments the model generates: two well-formed ones (the second
\* with a head of two words); truncated ones with no object marker (head and
\* tail, head and subject marker, head alone); one with no subject marker; one
\* that ends at its object marker; one with a second tail and relation chained
RebelSegments ==
    { SegmentText(<<"A">>, <<"B">>, <<"r">>),
      SegmentText(<<"C", " ", "c">>, <<"D">>, <<"q">>),
      <<" ", "E", " ">> \o SubjToken \o <<" ", "F">>,
      <<" ", "E", " ">> \o SubjToken,
      <<" ", "E">>,
      <<" ", "G", " ">> \o ObjToken \o <<" ", "q">>,
      <<" ", "A", " ">> \o SubjToken \o <<" ", "B", " ">> \o ObjToken,
      SegmentText(<<"A">>, <<"B">>, <<"r">>) \o <<"\r">> \o SubjToken \o <<"\f", "H", " ">>
          \o ObjToken \o <<" ", "q">> }

\* the segments joined, each after a <triplet> token
RECURSIVE JoinSegments(_)
JoinSegments(segs) ==
    IF segs = <<>> THEN <<>>
    ELSE TripletToken \o Head(segs) \o JoinSegments(Tail(segs))

\* decoded outputs: <s>, the segments, </s>, with or without padding after
RebelOutputs ==
    { BosToken \o JoinSegments(segs) \o EosToken \o padding :
          segs \in SeqsUpTo(RebelSegments, MaxSegments),
          padding \in {<<>>, PadToken \o PadToken} }

\* hallucinated triples handed to correct_hallucinations by an external
\* caller; the first has a typed head
CorrectableTriples == { RelationTriple(Entity(X, "PER"), w, Entity(Y, NoType)), T(Y, w, Z) }

\* what the correction backend answers: not JSON; a JSON array; {}; only a
\* relation; all three fields, padded with blanks; a null head; an empty relation
CorrectionResponses ==
    { [kind |-> "undecodable"],
      [kind |-> "array"],
      [kind |-> "object", fields |-> <<>>],
      [kind |-> "object", fields |-> [relation |-> JStr(a)]],
      [kind |-> "object", fields |-> [head |-> JStr(<<" ">> \o Z),
                                      relation |-> JStr(a \o <<" ">>),
                                      tail |-> JStr(Z)]],
      [kind |-> "object", fields |-> [head |-> JNull]],
      [kind |-> "object", fields |-> [relation |-> JStr(<<>>)]] }

\* entity records of an extraction response: X typed PER; X again, padded and
\* typed ORG; a blank text; Y with no type; Y typed ORG; a record with no
\* text; a record whose text is null
EntityItems ==
    { [text |-> JStr(X), type |-> "PER"],
      [text |-> JStr(<<" ">> \o X \o <<" ">>), type |-> "ORG"],
      [text |-> JStr(<<" ">>)],
      [text |-> JStr(Y)],
      [text |-> JStr(Y), type |-> "ORG"],
      [type |-> "PER"],
      [text |-> JNull] }

\* triple records of an extraction response: X w Y; " Y" w "Z\r"; an empty
\* relation; a record with no tail; a head of a blank and U+2003 (EM SPACE);
\* a record whose head is null
TripleItems ==
    { [head |-> JStr(X), relation |-> JStr(w), tail |-> JStr(Y)],
      [head |-> JStr(<<" ">> \o Y), relation |-> JStr(w), tail |-> JStr(Z \o <<"\r">>)],
      [head |-> JStr(X), relation |-> JStr(<<>>), tail |-> JStr(Y)],
      [head |-> JStr(X), relation |-> JStr(w)],
      [head |-> JStr(<<" ", "U+2003">>), relation |-> JStr(a), tail |-> JStr(Z)],
      [head |-> JNull, relation |-> JStr(w), tail |-> JStr(Z)] }

\* what the extraction backend answers, handed to parse_extraction_response
ExtractionResponses ==
    { [kind |-> "undecodable"], [kind |-> "array"] }
    \cup { [kind |-> "object", fields |-> [entities |-> es, triples |-> ts]] :
             es \in SeqsUpTo(EntityItems, MaxRecords),
             ts \in SeqsUpTo(TripleItems, MaxRecords) }

\* raw triplets extract_triplets returns for one sentence
RawTriplets ==
    { [head |-> X, type |-> w, tail |-> Y],
      [head |-> Y, type |-> w, tail |-> Z],
      [head |-> X, type |-> a, tail |-> X] }

\* answers handed to GraphEvalPipeline.run: "X w Y. Y w Z.", "X w Y w Z"
RunTexts ==
    { triple_to_sentence(T(X, w, Y)) \o <<".", " ">> \o triple_to_sentence(T(Y, w, Z)) \o <<".">>,
      triple_to_sentence(T(X, w, Y)) \o <<" ">> \o w \o <<" ">> \o Z }

\* what the extraction backend answers during a run: not JSON; a JSON array;
\* entities but no triple; two triples; the same triple twice; one triple and
\* one noise record
RunExtractionResponses ==
    { [kind |-> "undecodable"],
      [kind |-> "array"],
      [kind |-> "object", fields |-> [entities |-> <<[text |-> JStr(X), type |-> "PER"]>>]],
      [kind |-> "object",
       fields |-> [entities |-> <<[text |-> JStr(X), type |-> "PER"]>>,
                   triples |-> <<[head |-> JStr(X), relation |-> JStr(w), tail |-> JStr(Y)],
                                 [head |-> JStr(<<" ">> \o Y), relation |-> JStr(w), tail |-> JStr(Z)]>>]],
      [kind |-> "object",
       fields |-> [triples |-> <<[head |-> JStr(X), relation |-> JStr(w), tail |-> JStr(Y)],
                                 [head |-> JStr(X), relation |-> JStr(w), tail |-> JStr(Y)]>>]],
      [kind |-> "object",
       fields |-> [triples |-> <<[head |-> JStr(X), relation |-> JStr(<<>>), tail |-> JStr(Y)],
                                 [head |-> JStr(Y), relation |-> JStr(w), tail |-> JStr(Z)]>>]] }

---------------------------------------------------------------------------
(* Initial values of the state a specification does not use.               *)

RunIdle     == llm_output = <<>> /\ report = <<>>
ExtractIdle == response_text = [kind |-> "none"] /\ extraction = <<>>
DetectIdle  == /\ triples = <<>>
               /\ contradiction_threshold = 0
               /\ neutral_threshold = 0
               /\ judgements = <<>>
               /\ cb_results = <<>>
CorrectIdle == /\ ch_index = 0
               /\ results = <<>>
               /\ entity_refs = <<>>
               /\ corrected_triple_objs = <<>>
ReplaceIdle == /\ corrected_triples = <<>>
               /\ original_output = <<>>
               /\ rt_corrected_output = <<>>
               /\ k = 0
               /\ substitutions = 0
               /\ corrected_output = <<>>
DemoIdle    == /\ sentences = 0
               /\ all_triples = <<>>
               /\ all_entities = <<>>
               /\ kg_result = <<>>
               /\ decoded = <<>>
               /\ triplets = <<>>
GraphIdle   == json_file = <<>> /\ directed = TRUE /\ G = <<>>

---------------------------------------------------------------------------
(* replace_triples called by an external caller.                           *)

InitReplace ==
    /\ entry = "replace_triples"
    /\ pc = "replace_triples"
    /\ error = "none"
    /\ kwargs = <<>>
    /\ context \in Contexts
    /\ calls = <<>>
    /\ original_output \in ReplaceTexts
    /\ hallucinations \in SeqsUpTo(ReplaceHallucinations, MaxPairs)
    /\ corrected_triples \in SeqsUpTo(ReplaceCorrections, MaxPairs)
    /\ rt_corrected_output = <<>>
    /\ k = 0
    /\ substitutions = 0
    /\ corrected_output = <<>>
    /\ RunIdle /\ ExtractIdle /\ DetectIdle /\ CorrectIdle /\ DemoIdle
    /\ GraphIdle

NextReplace == ReplaceEnter \/ ReplaceStep \/ ReplaceReturn

SpecReplace == InitReplace /\ [][NextReplace]_vars

---------------------------------------------------------------------------
(* Claims about replace_triples.                                           *)

\* C3: replace_triples called with lists of different lengths raises before any
\* substitution is made and returns no text; it never runs the loop over the
\* shorter list.
C3_LengthMismatchRaises ==
    (entry = "replace_triples" /\ Len(hallucinations) # Len(corrected_triples)) =>
        /\ pc \in {"replace_triples", "raised"}
        /\ substitutions = 0
        /\ corrected_output = <<>>
        /\ (pc = "raised" => error = "ValueError")
        /\ (pc = "replace_triples" => error = "none")

\* two hallucinations and one correction, the first pair of which would have
\* matched the text: the call has raised
C3_Witness ==
    /\ entry = "replace_triples"
    /\ pc = "raised"
    /\ Len(hallucinations) = 2
    /\ Len(corrected_triples) = 1
    /\ IsSubstring(triple_to_sentence(hallucinations[1]), original_output)

\* the claim's verbalization "{head} {relation} {tail}"
ClaimSentence(t) == t.head.text \o <<" ">> \o t.relation \o <<" ">> \o t.tail.text

\* the left fold of str.replace over the first n (original, corrected) pairs
RECURSIVE FoldReplace(_, _, _, _)
FoldReplace(text, hs, cs, n) ==
    IF n = 0 THEN text
    ELSE str_replace(FoldReplace(text, hs, cs, n - 1),
                     ClaimSentence(hs[n]), ClaimSentence(cs[n]))

\* C4: for lists of equal length the text replace_triples returns is the left
\* fold, in input order, of "replace every occurrence of the original's sentence
\* by the correction's sentence", each step applied to the text the previous
\* step produced; the text being built after j pairs is the fold of those pairs.
C4_ReplaceIsLeftFold ==
    (entry = "replace_triples" /\ Len(hallucinations) = Len(corrected_triples)) =>
        /\ (pc = "replace_loop" =>
               rt_corrected_output =
                   FoldReplace(original_output, hallucinations, corrected_triples, k - 1))
        /\ (pc = "done" =>
               corrected_output =
                   FoldReplace(original_output, hallucinations, corrected_triples,
                               Len(hallucinations)))

\* a call has returned in which the second pair matched text that only the
\* first correction introduced
C4_Witness ==
    /\ entry = "replace_triples"
    /\ pc = "done"
    /\ Len(hallucinations) = 2
    /\ Len(corrected_triples) = 2
    /\ ~IsSubstring(triple_to_sentence(hallucinations[2]), original_output)
    /\ corrected_output #
           str_replace(original_output, triple_to_sentence(hallucinations[1]),
                       triple_to_sentence(corrected_triples[1]))

\* positions of text inside an occurrence of some hallucinated triple's sentence
Covered(text, hs) ==
    { p \in 1..Len(text) :
        \E i \in 1..Len(text), j \in 1..Len(hs) :
            /\ MatchAt(text, ClaimSentence(hs[j]), i)
            /\ i <= p
            /\ p < i + Len(ClaimSentence(hs[j])) }

\* the maximal stretches of text outside cov, in order; the first and the last
\* are empty when text starts or ends inside cov
RECURSIVE UncoveredFrom(_, _, _, _, _)
UncoveredFrom(text, cov, p, cur, prevCovered) ==
    IF p > Len(text) THEN <<cur>>
    ELSE IF p \in cov
         THEN (IF prevCovered THEN <<>> ELSE <<cur>>)
                  \o UncoveredFrom(text, cov, p + 1, <<>>, TRUE)
         ELSE UncoveredFrom(text, cov, p + 1, cur \o <<text[p]>>, FALSE)

Uncovered(text, cov) == UncoveredFrom(text, cov, 1, <<>>, FALSE)

\* u[j..] appear in r from position q on, in order and without overlap, the last
\* of them ending r
RECURSIVE FitsFrom(_, _, _, _)
FitsFrom(r, u, j, q) ==
    IF j = Len(u)
    THEN /\ Len(r) - Len(u[j]) + 1 >= q
         /\ MatchAt(r, u[j], Len(r) - Len(u[j]) + 1)
    ELSE LET at == { i \in q..(Len(r) + 1) : MatchAt(r, u[j], i) }
         IN  /\ at # {}
             /\ FitsFrom(r, u, j + 1, (CHOOSE i \in at : \A y \in at : i <= y) + Len(u[j]))

\* r is text with only its covered stretches rewritten
UnrelatedKept(text, cov, r) ==
    LET u == Uncovered(text, cov)
    IN  IF Len(u) = 1 THEN r = text
        ELSE MatchAt(r, u[1], 1) /\ FitsFrom(r, u, 2, Len(u[1]) + 1)

\* C5: every part of the original text that is not an occurrence of a
\* hallucinated triple's sentence appears unchanged, in place, in the text
\* replace_triples returns.
C5_UnrelatedContentKept ==
    (entry = "replace_triples" /\ pc = "done") =>
        UnrelatedKept(original_output, Covered(original_output, hallucinations),
                      corrected_output)

---------------------------------------------------------------------------
(* detect_hallucinations: one call of classify_batch, then the loop.       *)

\* the judge, whole: classify_batch is called once; if it returns, the loop
\* builds the judgements; the call is recorded when it returns, after the
\* backend calls the classifier made
Detect ==
    /\ pc = "detect_hallucinations"
    /\ \E run \in ClassifierRuns(detect_pairs(triples, context)) :
          IF run.outcome.raised # "none"
          THEN /\ calls' = calls \o run.backend
               /\ pc' = "raised"
               /\ error' = run.outcome.raised
               /\ UNCHANGED <<judgements, cb_results>>
          ELSE /\ calls' = (calls \o run.backend)
                              \o << [fn |-> "classify_batch",
                                     arg |-> detect_pairs(triples, context),
                                     returned |-> run.outcome.value[1]] >>
               /\ cb_results' = run.outcome.value[1]
               /\ judgements' = detect_hallucinations(triples, run.outcome.value[1],
                                    contradiction_threshold, neutral_threshold)
               /\ pc' = IF entry = "run" THEN "run_filter" ELSE "done"
               /\ UNCHANGED error
    /\ UNCHANGED <<entry, kwargs, graphVars, runVars, context, extractVars, triples,
                   contradiction_threshold, neutral_threshold, correctVars,
                   replaceVars, demoVars>>

InitDetect ==
    /\ entry = "detect_hallucinations"
    /\ pc = "detect_hallucinations"
    /\ error = "none"
    /\ kwargs \in DetectKwargs
    /\ context \in Contexts
    /\ calls = <<>>
    /\ triples \in SeqsUpTo(JudgedTriples, MaxTriples)
    /\ contradiction_threshold
           = dict_get(kwargs, "contradiction_threshold", DefaultContradictionThreshold)
    /\ neutral_threshold = dict_get(kwargs, "neutral_threshold", DefaultNeutralThreshold)
    /\ judgements = <<>>
    /\ cb_results = <<>>
    /\ hallucinations = <<>>
    /\ RunIdle /\ ExtractIdle /\ CorrectIdle /\ ReplaceIdle /\ DemoIdle
    /\ GraphIdle

NextDetect == Detect

SpecDetect == InitDetect /\ [][NextDetect]_vars

\* C1: a judged triple is flagged exactly when its contradiction score is at
\* least the contradiction threshold or its neutral score is at least the
\* neutral threshold (a score absent from the distribution counts as 0); under
\* the defaults 0.5/0.5 the distribution (contradiction 0.5, neutral 0.0) is
\* flagged and (contradiction 0.49, neutral 0.49) is not.
C1_ThresholdPolicy ==
    /\ \A i \in 1..Len(judgements) :
          LET sc == judgements[i].nli_result.scores
              c  == IF "contradiction" \in DOMAIN sc THEN sc.contradiction ELSE 0
              n  == IF "neutral" \in DOMAIN sc THEN sc.neutral ELSE 0
          IN  judgements[i].is_hallucination <=>
                  (c >= contradiction_threshold \/ n >= neutral_threshold)
    /\ (contradiction_threshold = DefaultContradictionThreshold
          /\ neutral_threshold = DefaultNeutralThreshold) =>
            \A i \in 1..Len(judgements) :
                /\ judgements[i].nli_result.scores = Dist(50, 50, 0)
                      => judgements[i].is_hallucination
                /\ judgements[i].nli_result.scores = Dist(2, 49, 49)
                      => ~judgements[i].is_hallucination

\* under the default thresholds one triple scored (0.5, 0.0) was flagged and
\* another scored (0.49, 0.49) was not
C1_Witness ==
    /\ entry = "detect_hallucinations"
    /\ pc = "done"
    /\ contradiction_threshold = DefaultContradictionThreshold
    /\ neutral_threshold = DefaultNeutralThreshold
    /\ \E i, j \in 1..Len(judgements) :
          /\ judgements[i].nli_result.scores = Dist(50, 50, 0)
          /\ judgements[i].is_hallucination
          /\ judgements[j].nli_result.scores = Dist(2, 49, 49)
          /\ ~judgements[j].is_hallucination

\* C7: detect_hallucinations returns one judgement per input triple, in input
\* order: the i-th judgement holds the i-th triple and the i-th result the
\* classifier returned.
C7_OneJudgementPerTriple ==
    (entry = "detect_hallucinations" /\ pc = "done") =>
        /\ calls # <<>>
        /\ calls[Len(calls)].fn = "classify_batch"
        /\ \A i \in 1..(Len(calls) - 1) : calls[i].fn # "classify_batch"
        /\ Len(judgements) = Len(triples)
        /\ \A i \in 1..Len(triples) :
              /\ judgements[i].triple = triples[i]
              /\ judgements[i].nli_result = calls[Len(calls)].returned[i]

\* two different triples were judged with two different results, only the
\* second of which is flagged
C7_Witness ==
    /\ entry = "detect_hallucinations"
    /\ pc = "done"
    /\ Len(triples) = 2
    /\ triples[1] # triples[2]
    /\ calls[Len(calls)].returned[1] # calls[Len(calls)].returned[2]
    /\ ~judgements[1].is_hallucination
    /\ judgements[2].is_hallucination

---------------------------------------------------------------------------
(* classify_batch of NLIClient and of LLMNLIClient called by an external   *)
(* caller on the pairs of (context, hypothesis).                           *)

\* classify_batch, whole
ClassifyBatch ==
    /\ pc = "classify_batch"
    /\ \E run \in (IF entry = "NLIClient.classify_batch"
                   THEN NLIClientRuns(detect_pairs(triples, context))
                   ELSE LLMNLIClientRuns(detect_pairs(triples, context))) :
          /\ calls' = calls \o run.backend
          /\ IF run.outcome.raised # "none"
             THEN /\ pc' = "raised"
                  /\ error' = run.outcome.raised
                  /\ UNCHANGED cb_results
             ELSE /\ cb_results' = run.outcome.value[1]
                  /\ pc' = "done"
                  /\ UNCHANGED error
    /\ UNCHANGED <<entry, kwargs, graphVars, runVars, context, extractVars, triples,
                   contradiction_threshold, neutral_threshold, judgements,
                   correctVars, replaceVars, demoVars>>

InitClassify ==
    /\ entry \in {"NLIClient.classify_batch", "LLMNLIClient.classify_batch"}
    /\ pc = "classify_batch"
    /\ error = "none"
    /\ kwargs = <<>>
    /\ context \in Contexts
    /\ calls = <<>>
    /\ triples \in SeqsUpTo(JudgedTriples, MaxTriples)
    /\ contradiction_threshold = 0
    /\ neutral_threshold = 0
    /\ judgements = <<>>
    /\ cb_results = <<>>
    /\ hallucinations = <<>>
    /\ RunIdle /\ ExtractIdle /\ CorrectIdle /\ ReplaceIdle /\ DemoIdle
    /\ GraphIdle

NextClassify == ClassifyBatch

SpecClassify == InitClassify /\ [][NextClassify]_vars

\* label spells entailment, contradiction or neutral, in any letter case
RecognizedSpelling(label) ==
    \E name \in {"entailment", "contradiction", "neutral"} :
        /\ Len(label) = Len(LabelSpelling[name])
        /\ \A i \in 1..Len(label) :
              \/ label[i] = LabelSpelling[name][i]
              \/ \E j \in 1..Len(UpperLetters) :
                    label[i] = UpperLetters[j] /\ LabelSpelling[name][i] = LowerLetters[j]

\* the labels the inference backend returned in calls[i]: the labels of a
\* model pipeline call, the trimmed non-empty label of an LLM answer
BackendLabels(i) ==
    IF calls[i].fn = "pipe"
    THEN UNION { { calls[i].returned[p][q].label : q \in 1..Len(calls[i].returned[p]) } :
                    p \in 1..Len(calls[i].returned) }
    ELSE IF /\ calls[i].fn = "complete"
            /\ calls[i].arg.prompt = "nli"
            /\ calls[i].returned.kind = "object"
            /\ "label" \in DOMAIN calls[i].returned.fields
            /\ calls[i].returned.fields.label.json = "string"
         THEN { strip(calls[i].returned.fields.label.s) } \ {<<>>}
         ELSE {}

\* C11: if the inference backend has returned a label that is not a spelling
\* of entailment, contradiction or neutral, the classify_batch call has raised
\* ValueError and returned no results, for NLIClient and for LLMNLIClient; no
\* backend call follows the one that returned the label.
C11_UnrecognizedLabelRaises ==
    \A i \in 1..Len(calls) :
        (\E label \in BackendLabels(i) : ~RecognizedSpelling(label)) =>
            /\ pc = "raised"
            /\ error = "ValueError"
            /\ cb_results = <<>>
            /\ judgements = <<>>
            /\ i = Len(calls)

\* LLMNLIClient classified the first of two pairs and was answered an unknown
\* label for the second
C11_Witness ==
    /\ entry = "LLMNLIClient.classify_batch"
    /\ pc = "raised"
    /\ Len(triples) = 2
    /\ Len(calls) = 2
    /\ BackendLabels(1) # {}
    /\ \A label \in BackendLabels(1) : RecognizedSpelling(label)
    /\ \E label \in BackendLabels(2) : ~RecognizedSpelling(label)

\* NLIClient was returned an unknown label among the scores of the second pair
C11_WitnessNLIClient ==
    /\ entry = "NLIClient.classify_batch"
    /\ pc = "raised"
    /\ Len(triples) = 2
    /\ \A q \in 1..Len(calls[1].returned[1]) :
          RecognizedSpelling(calls[1].returned[1][q].label)
    /\ \E q \in 1..Len(calls[1].returned[2]) :
          ~RecognizedSpelling(calls[1].returned[2][q].label)

\* C12: every result a classifier client returns has scores for exactly the
\* labels entailment, contradiction and neutral, and its label is one whose
\* score is maximal; the label depends on the scores alone, not on a threshold
\* or a flag.
C12_LabelIsArgmaxOfThreeScores ==
    \A i \in 1..Len(cb_results) :
        /\ DOMAIN cb_results[i].scores = {"entailment", "contradiction", "neutral"}
        /\ cb_results[i].label \in DOMAIN cb_results[i].scores
        /\ \A name \in DOMAIN cb_results[i].scores :
              cb_results[i].scores[name] <= cb_results[i].scores[cb_results[i].label]
        /\ \A j \in 1..Len(cb_results) :
              cb_results[j].scores = cb_results[i].scores
                  => cb_results[j].label = cb_results[i].label

\* NLIClient returned a result labelled entailment (0.6) with neutral 0.4 and
\* one labelled contradiction: the first is not flagged by the default
\* thresholds and is flagged by a neutral threshold of 0.4
C12_Witness ==
    /\ entry = "NLIClient.classify_batch"
    /\ pc = "done"
    /\ \E i, j \in 1..Len(cb_results) :
          /\ cb_results[i].label = "entailment"
          /\ cb_results[i].scores = Dist(60, 0, 40)
          /\ ~is_hallucination(cb_results[i].scores, DefaultContradictionThreshold,
                               DefaultNeutralThreshold)
          /\ is_hallucination(cb_results[i].scores, DefaultContradictionThreshold, 40)
          /\ cb_results[j].label = "contradiction"

---------------------------------------------------------------------------
(* correct_hallucinations: one backend request per hallucinated triple.    *)

\* the iteration with a triple already corrected answered from the earlier
\* correction, without a request
CorrectStepDeduplicating ==
    /\ pc = "correct_hallucinations"
    /\ ch_index <= Len(hallucinations)
    /\ LET triple == hallucinations[ch_index]
           seen == { j \in 1..Len(results) : results[j].original = triple }
       IN  IF seen # {}
           THEN /\ results' = Append(results, results[CHOOSE j \in seen : TRUE])
                /\ entity_refs' = Append(entity_refs, entity_refs[CHOOSE j \in seen : TRUE])
                /\ ch_index' = ch_index + 1
                /\ UNCHANGED <<calls, pc, error>>
           ELSE \E raw \in CorrectionResponses :
                   LET parsed == parse_single_corrected_triple(raw, triple)
                   IN  /\ calls' = Append(calls, [fn |-> "complete",
                                                  arg |-> build_correction_prompt(triple, context),
                                                  returned |-> raw])
                       /\ IF parsed.raised # "none"
                          THEN /\ pc' = "raised"
                               /\ error' = parsed.raised
                               /\ UNCHANGED <<results, entity_refs, ch_index>>
                          ELSE /\ results' = Append(results,
                                                CorrectedTriple(triple, parsed.value[1]))
                               /\ entity_refs' = Append(entity_refs,
                                      corrected_entity_refs(parsed.value[1], triple, ch_index))
                               /\ ch_index' = ch_index + 1
                               /\ UNCHANGED <<pc, error>>
    /\ UNCHANGED <<entry, kwargs, graphVars, runVars, context, extractVars, detectVars, hallucinations,
                   corrected_triple_objs, replaceVars, demoVars>>

\* the iteration that also substitutes the correction into the text at once,
\* before the remaining triples are requested
CorrectStepRepairing ==
    /\ pc = "correct_hallucinations"
    /\ ch_index <= Len(hallucinations)
    /\ \E raw \in CorrectionResponses :
          LET triple == hallucinations[ch_index]
              prompt == build_correction_prompt(triple, context)
              parsed == parse_single_corrected_triple(raw, triple)
          IN  /\ calls' = Append(calls, [fn |-> "complete", arg |-> prompt, returned |-> raw])
              /\ IF parsed.raised # "none"
                 THEN /\ pc' = "raised"
                      /\ error' = parsed.raised
                      /\ UNCHANGED <<results, entity_refs, ch_index, corrected_output, substitutions>>
                 ELSE /\ results' = Append(results, CorrectedTriple(triple, parsed.value[1]))
                      /\ entity_refs' = Append(entity_refs,
                             corrected_entity_refs(parsed.value[1], triple, ch_index))
                      /\ ch_index' = ch_index + 1
                      /\ corrected_output' =
                             ReplacePair(corrected_output, triple, parsed.value[1])
                      /\ substitutions' = substitutions + 1
                      /\ UNCHANGED <<pc, error>>
    /\ UNCHANGED <<entry, kwargs, graphVars, runVars, context, extractVars, detectVars, hallucinations,
                   corrected_triple_objs, corrected_triples, original_output,
                   rt_corrected_output, k, demoVars>>

\* one iteration of the for loop: prompt, complete, parse, append
CorrectStep ==
    /\ pc = "correct_hallucinations"
    /\ ch_index <= Len(hallucinations)
    /\ \E raw \in CorrectionResponses :
          LET triple == hallucinations[ch_index]
              prompt == build_correction_prompt(triple, context)
              parsed == parse_single_corrected_triple(raw, triple)
          IN  /\ calls' = Append(calls, [fn |-> "complete", arg |-> prompt, returned |-> raw])
              /\ IF parsed.raised # "none"
                 THEN /\ pc' = "raised"
                      /\ error' = parsed.raised
                      /\ UNCHANGED <<results, entity_refs, ch_index>>
                 ELSE /\ results' = Append(results, CorrectedTriple(triple, parsed.value[1]))
                      /\ entity_refs' = Append(entity_refs,
                             corrected_entity_refs(parsed.value[1], triple, ch_index))
                      /\ ch_index' = ch_index + 1
                      /\ UNCHANGED <<pc, error>>
    /\ UNCHANGED <<entry, kwargs, graphVars, runVars, context, extractVars, detectVars, hallucinations,
                   corrected_triple_objs, replaceVars, demoVars>>

\* return results (to run, or to the external caller)
CorrectReturn ==
    /\ pc = "correct_hallucinations"
    /\ ch_index > Len(hallucinations)
    /\ corrected_triple_objs' = results
    /\ pc' = IF entry = "run" THEN "run_repair" ELSE "done"
    /\ UNCHANGED <<entry, kwargs, graphVars, error, runVars, context, calls, extractVars, detectVars,
                   hallucinations, ch_index, results, entity_refs, replaceVars, demoVars>>

InitCorrect ==
    /\ entry = "correct_hallucinations"
    /\ pc = "correct_hallucinations"
    /\ error = "none"
    /\ kwargs = <<>>
    /\ context \in Contexts
    /\ calls = <<>>
    /\ hallucinations \in SeqsUpTo(CorrectableTriples, MaxTriples)
    /\ ch_index = 1
    /\ results = <<>>
    /\ entity_refs = <<>>
    /\ corrected_triple_objs = <<>>
    /\ RunIdle /\ ExtractIdle /\ DetectIdle /\ ReplaceIdle /\ DemoIdle
    /\ GraphIdle

NextCorrect == CorrectStep \/ CorrectReturn

SpecCorrect == InitCorrect /\ [][NextCorrect]_vars

\* C8: a correct_hallucinations call that returns over n triples has made
\* exactly n complete requests, the i-th for the i-th triple (identical triples
\* are requested again), and returns n corrections, the i-th pairing the i-th
\* triple with the triple parsed from the i-th response.
C8_OneRequestPerTriple ==
    (entry = "correct_hallucinations" /\ pc = "done") =>
        /\ Len(calls) = Len(hallucinations)
        /\ Len(corrected_triple_objs) = Len(hallucinations)
        /\ \A i \in 1..Len(hallucinations) :
              /\ calls[i].fn = "complete"
              /\ calls[i].arg.prompt = "correction"
              /\ calls[i].arg.ctx = context
              /\ calls[i].arg.triple_text =
                     hallucinations[i].head.text \o <<" ">> \o hallucinations[i].relation
                         \o <<" ">> \o hallucinations[i].tail.text \o <<".">>
              /\ corrected_triple_objs[i].original = hallucinations[i]
              /\ corrected_triple_objs[i].corrected =
                     parse_single_corrected_triple(calls[i].returned,
                                                   hallucinations[i]).value[1]

\* the call returned over two identical triples, answered differently
C8_Witness ==
    /\ entry = "correct_hallucinations"
    /\ pc = "done"
    /\ Len(hallucinations) = 2
    /\ hallucinations[1] = hallucinations[2]
    /\ Len(calls) = 2
    /\ corrected_triple_objs[1].corrected # corrected_triple_objs[2].corrected

\* the response's value for a field, as text
FieldText(raw, key) == strip(py_str(raw.fields[key]))

\* C9: when the response decodes to an object, each of head, relation, tail of
\* the corrected triple is the original's when the response lacks the field and
\* the response's (stripped) when it has it.
C9_MissingFieldsFallBack ==
    entry = "correct_hallucinations" =>
        \A i \in 1..Len(results) :
            LET raw == calls[i].returned
                original == results[i].original
                corrected == results[i].corrected
            IN  /\ raw.kind = "object"
                /\ original = hallucinations[i]
                /\ corrected.head.text =
                       IF "head" \in DOMAIN raw.fields
                       THEN FieldText(raw, "head") ELSE original.head.text
                /\ corrected.relation =
                       IF "relation" \in DOMAIN raw.fields
                       THEN FieldText(raw, "relation") ELSE original.relation
                /\ corrected.tail.text =
                       IF "tail" \in DOMAIN raw.fields
                       THEN FieldText(raw, "tail") ELSE original.tail.text

\* a response holding only a relation gave a corrected triple with the new
\* relation and the original's head and tail
C9_Witness ==
    /\ entry = "correct_hallucinations"
    /\ \E i \in 1..Len(results) :
          /\ DOMAIN calls[i].returned.fields = {"relation"}
          /\ results[i].corrected.relation = a
          /\ results[i].original.relation = w
          /\ results[i].corrected.head.text = results[i].original.head.text
          /\ results[i].corrected.tail.text = results[i].original.tail.text

---------------------------------------------------------------------------
(* parse_extraction_response and the demo's aggregation of extraction      *)
(* passes.                                                                 *)

\* parse_extraction_response, whole
ParseExtraction ==
    /\ pc = "parse_extraction_response"
    /\ LET parsed == parse_extraction_response(response_text)
       IN  IF parsed.raised # "none"
           THEN /\ pc' = "raised"
                /\ error' = parsed.raised
                /\ UNCHANGED extraction
           ELSE /\ extraction' = parsed.value
                /\ pc' = IF entry = "run" THEN "run_detect" ELSE "done"
                /\ UNCHANGED error
    /\ UNCHANGED <<entry, kwargs, graphVars, runVars, context, calls, response_text, detectVars,
                   correctVars, replaceVars, demoVars>>

---------------------------------------------------------------------------
(* Graph storage: src/grapheval/storage/graph_storage.py                   *)

\* Entity.id default
NoId == "None"

\* the data save_kg_to_json dumps to the file: _entity_to_dict of every entity
\* and _triple_to_dict of every triple
save_kg_to_json(result) ==
    [entities |-> [ i \in 1..Len(result.entities) |->
                      [text |-> result.entities[i].text,
                       type |-> result.entities[i].type,
                       id   |-> NoId] ],
     triples  |-> [ i \in 1..Len(result.triples) |->
                      [head       |-> result.triples[i].head.text,
                       relation   |-> result.triples[i].relation,
                       tail       |-> result.triples[i].tail.text,
                       confidence |-> result.triples[i].confidence] ]]

\* G.add_node(node_id, text=..., type=..., id=...), called for a node the
\* graph does not have
add_node(g, ent) ==
    [g EXCEPT !.node = od_set(g.node, ent.text,
                              [text |-> ent.text, type |-> ent.type, id |-> NoId])]

\* G.add_edge(head_id, tail_id, relation=..., confidence=...): the edge's
\* attribute dict is the one the pair already has, if any, updated with the
\* given attributes; an undirected graph keeps it under both orders
add_edge(g, u, v, attrs) ==
    LET old      == IF od_has(g.adj, <<u, v>>) THEN od_get(g.adj, <<u, v>>) ELSE <<>>
        datadict == [ key \in DOMAIN old \cup DOMAIN attrs |->
                        IF key \in DOMAIN attrs THEN attrs[key] ELSE old[key] ]
        forward  == od_set(g.adj, <<u, v>>, datadict)
    IN  [g EXCEPT !.adj = IF g.directed THEN forward
                          ELSE od_set(forward, <<v, u>>, datadict)]

\* the first loop of build_networkx_graph over result.entities[n..]
RECURSIVE graph_nodes_loop(_, _, _)
graph_nodes_loop(g, entities, n) ==
    IF n > Len(entities) THEN g
    ELSE graph_nodes_loop(IF od_has(g.node, entities[n].text) THEN g
                          ELSE add_node(g, entities[n]),
                          entities, n + 1)

\* the second loop of build_networkx_graph over result.triples[n..]
RECURSIVE graph_edges_loop(_, _, _)
graph_edges_loop(g, ts, n) ==
    IF n > Len(ts) THEN g
    ELSE LET triple   == ts[n]
             withHead == IF od_has(g.node, triple.head.text) THEN g
                         ELSE add_node(g, triple.head)
             withTail == IF od_has(withHead.node, triple.tail.text) THEN withHead
                         ELSE add_node(withHead, triple.tail)
         IN  graph_edges_loop(add_edge(withTail, triple.head.text, triple.tail.text,
                                       [relation   |-> triple.relation,
                                        confidence |-> triple.confidence]),
                              ts, n + 1)

\* G is nx.DiGraph() or nx.Graph(): the node dict and the adjacency, insertion
\* ordered and empty at first; the adjacency is keyed by the pair <<u, v>>
build_networkx_graph(result, is_directed) ==
    LET empty == [directed |-> is_directed, node |-> <<>>, adj |-> <<>>]
    IN  graph_edges_loop(graph_nodes_loop(empty, result.entities, 1),
                         result.triples, 1)

\* demo main, one sentence of the for loop: extract_relations, then the
\* triples and their entities are accumulated
DemoPass ==
    /\ pc = "demo_loop"
    /\ sentences > 0
    /\ \E raw_triplets \in SeqsUpTo(RawTriplets, MaxRecords) :
          LET ts == extract_relations(raw_triplets)
          IN  /\ all_triples' = all_triples \o ts
              /\ all_entities' = collect_entities(all_entities, ts, Len(ts))
    /\ sentences' = sentences - 1
    /\ UNCHANGED <<entry, kwargs, graphVars, pc, error, runVars, context, calls, extractVars, detectVars,
                   correctVars, replaceVars, kg_result, decoded, triplets>>

\* demo main, after the loop: if all_triples, the ExtractionResult is built
\* and persist_kg(kg_result, json_path=..., build_networkx=True) writes it to
\* the JSON file and builds the directed graph
DemoBuild ==
    /\ pc = "demo_loop"
    /\ sentences = 0
    /\ IF all_triples # <<>>
       THEN LET result == ExtractionResult(od_values(all_entities), all_triples)
            IN  /\ kg_result' = <<result>>
                /\ json_file' = save_kg_to_json(result)
                /\ G' = build_networkx_graph(result, TRUE)
       ELSE UNCHANGED <<kg_result, json_file, G>>
    /\ pc' = "done"
    /\ UNCHANGED <<entry, kwargs, directed, error, runVars, context, calls, extractVars, detectVars,
                   correctVars, replaceVars, sentences, all_triples, all_entities,
                   decoded, triplets>>

InitExtract ==
    /\ error = "none"
    /\ kwargs = <<>>
    /\ context \in Contexts
    /\ calls = <<>>
    /\ extraction = <<>>
    /\ hallucinations = <<>>
    /\ all_triples = <<>>
    /\ all_entities = <<>>
    /\ kg_result = <<>>
    /\ decoded = <<>>
    /\ triplets = <<>>
    /\ \/ /\ entry = "parse_extraction_response"
          /\ pc = "parse_extraction_response"
          /\ response_text \in ExtractionResponses
          /\ sentences = 0
       \/ /\ entry = "demo_main"
          /\ pc = "demo_loop"
          /\ response_text = [kind |-> "none"]
          /\ sentences \in 0..MaxSentences
    /\ RunIdle /\ DetectIdle /\ CorrectIdle /\ ReplaceIdle
    /\ GraphIdle

NextExtract == ParseExtraction \/ DemoPass \/ DemoBuild

SpecExtract == InitExtract /\ [][NextExtract]_vars

\* no two entities of er have the same text, and the head text and the tail
\* text of every triple of er are the text of some entity of er
WellFormedResult(er) ==
    /\ \A i, j \in 1..Len(er.entities) :
          er.entities[i].text = er.entities[j].text => i = j
    /\ \A i \in 1..Len(er.triples) :
          /\ \E j \in 1..Len(er.entities) : er.entities[j].text = er.triples[i].head.text
          /\ \E j \in 1..Len(er.entities) : er.entities[j].text = er.triples[i].tail.text

\* the text field of a record, trimmed; a field that is absent or is not text
\* (null) is the empty text
TrimmedField(item, key) ==
    LET raw == dict_get(item, key, JStr(<<>>))
    IN  IF raw.json = "string" THEN strip(raw.s) ELSE <<>>

\* C6: every ExtractionResult built by parse_extraction_response or by the
\* multi-pass aggregation has no two entities of equal text, and holds an
\* entity for the head text and the tail text of each of its triples.
C6_EntityDedup ==
    /\ \A i \in 1..Len(extraction) : WellFormedResult(extraction[i])
    /\ \A i \in 1..Len(kg_result) : WellFormedResult(kg_result[i])

\* a response naming X twice among its entity records, with a triple whose
\* tail no entity record names, was parsed to one X entity and two triples
C6_Witness ==
    /\ entry = "parse_extraction_response"
    /\ pc = "done"
    /\ Len(response_text.fields.entities) = 2
    /\ \A i \in 1..2 : TrimmedField(response_text.fields.entities[i], "text") = X
    /\ Len(extraction[1].triples) = 2
    /\ Len(extraction[1].entities) = 3

\* two passes that both mention X were aggregated into one ExtractionResult
C6_WitnessAggregated ==
    /\ entry = "demo_main"
    /\ pc = "done"
    /\ Len(kg_result) = 1
    /\ Len(kg_result[1].triples) >= 3
    /\ Len(kg_result[1].entities) = 3

\* the record has a head, a tail and a relation that are not empty after
\* trimming
CompleteRecord(item) ==
    /\ TrimmedField(item, "head") # <<>>
    /\ TrimmedField(item, "tail") # <<>>
    /\ TrimmedField(item, "relation") # <<>>

\* the type the first entity record with surface text gives, unset when that
\* record gives none or when no entity record has the text (the text is then
\* introduced by a triple record, which gives no type)
FirstWriterType(records, text) ==
    LET named == { i \in 1..Len(records) : TrimmedField(records[i], "text") = text }
    IN  IF named = {} THEN NoType
        ELSE dict_get(records[CHOOSE i \in named : \A j \in named : i <= j], "type", NoType)

\* C26: in the ExtractionResult parse_extraction_response returns, the
\* Entity of every surface text has the type given by the first record that
\* introduced the text, unset when that record gave none, whatever later
\* entity or triple records with the same text say; the heads and tails of
\* the triples are these entities.
C26_FirstWriterWins ==
    (/\ entry = "parse_extraction_response"
     /\ pc = "done"
     /\ response_text.kind = "object")
    => LET records == dict_get(response_text.fields, "entities", <<>>)
           er == extraction[1]
       IN  /\ \A i \in 1..Len(er.entities) :
                 er.entities[i].type = FirstWriterType(records, er.entities[i].text)
           /\ \A i \in 1..Len(er.triples) :
                 /\ er.triples[i].head.type = FirstWriterType(records, er.triples[i].head.text)
                 /\ er.triples[i].tail.type = FirstWriterType(records, er.triples[i].tail.text)

\* X was introduced typed PER and named again typed ORG, and is the head of a
\* triple: the entity and the triple's head are typed PER
C26_Witness ==
    /\ entry = "parse_extraction_response"
    /\ pc = "done"
    /\ response_text.kind = "object"
    /\ Len(response_text.fields.entities) = 2
    /\ response_text.fields.entities[1] = [text |-> JStr(X), type |-> "PER"]
    /\ dict_get(response_text.fields.entities[2], "type", NoType) = "ORG"
    /\ TrimmedField(response_text.fields.entities[2], "text") = X
    /\ \E i \in 1..Len(extraction[1].triples) :
          extraction[1].triples[i].head = Entity(X, "PER")

\* Y was introduced with no type and named again typed ORG: it stays untyped
C26_WitnessUnset ==
    /\ entry = "parse_extraction_response"
    /\ pc = "done"
    /\ response_text.kind = "object"
    /\ response_text.fields.entities = <<[text |-> JStr(Y)], [text |-> JStr(Y), type |-> "ORG"]>>
    /\ extraction[1].entities[1] = Entity(Y, NoType)

\* the entity records of the response all have a text that is text or absent
EntityRecordsHoldText ==
    \A i \in 1..Len(dict_get(response_text.fields, "entities", <<>>)) :
        dict_get(response_text.fields.entities[i], "text", JStr(<<>>)).json = "string"

\* C17: for every response that decodes to an object (with entity records
\* that hold text), parse_extraction_response raises no error and returns
\* exactly one triple for each triple record whose head, tail and relation
\* are text that is not empty after trimming, in the order of the records: a
\* record with a missing (absent or null) or empty field is dropped and every
\* other record is still emitted.
C17_IncompleteRecordsSkipped ==
    (/\ entry = "parse_extraction_response"
     /\ pc # "parse_extraction_response"
     /\ response_text.kind = "object"
     /\ EntityRecordsHoldText)
    => /\ pc = "done"
       /\ error = "none"
       /\ LET kept == SelectSeq(dict_get(response_text.fields, "triples", <<>>), CompleteRecord)
              ts == extraction[1].triples
          IN  /\ Len(ts) = Len(kept)
              /\ \A i \in 1..Len(kept) :
                    /\ ts[i].head.text = TrimmedField(kept[i], "head")
                    /\ ts[i].relation = TrimmedField(kept[i], "relation")
                    /\ ts[i].tail.text = TrimmedField(kept[i], "tail")

\* a response whose first triple record has no tail and whose second is
\* complete was parsed to one triple, that of the second record
C17_Witness ==
    /\ entry = "parse_extraction_response"
    /\ pc = "done"
    /\ response_text.kind = "object"
    /\ Len(response_text.fields.triples) = 2
    /\ "tail" \notin DOMAIN response_text.fields.triples[1]
    /\ CompleteRecord(response_text.fields.triples[2])
    /\ Len(extraction[1].triples) = 1
    /\ extraction[1].triples[1].head.text = TrimmedField(response_text.fields.triples[2], "head")

\* a response whose first triple record is complete and whose second has a
\* blank head was parsed to one triple, that of the first record
C17_WitnessBlankAfter ==
    /\ entry = "parse_extraction_response"
    /\ pc = "done"
    /\ response_text.kind = "object"
    /\ Len(response_text.fields.triples) = 2
    /\ CompleteRecord(response_text.fields.triples[1])
    /\ dict_get(response_text.fields.triples[2], "head", JNull) = JStr(<<" ", "U+2003">>)
    /\ Len(extraction[1].triples) = 1
    /\ extraction[1].triples[1].tail.text = TrimmedField(response_text.fields.triples[1], "tail")

---------------------------------------------------------------------------
(* RebelExtractor._parse_rebel_output called on a decoded model output.    *)

\* _parse_rebel_output, whole
ParseRebelOutput ==
    /\ pc = "parse_rebel_output"
    /\ triplets' = parse_rebel_output(decoded)
    /\ pc' = "done"
    /\ UNCHANGED <<entry, kwargs, graphVars, error, runVars, context, calls, extractVars, detectVars,
                   correctVars, replaceVars, sentences, all_triples, all_entities,
                   kg_result, decoded>>

InitRebel ==
    /\ entry = "parse_rebel_output"
    /\ pc = "parse_rebel_output"
    /\ error = "none"
    /\ kwargs = <<>>
    /\ context = <<>>
    /\ calls = <<>>
    /\ hallucinations = <<>>
    /\ decoded \in RebelOutputs
    /\ triplets = <<>>
    /\ sentences = 0
    /\ all_triples = <<>>
    /\ all_entities = <<>>
    /\ kg_result = <<>>
    /\ RunIdle /\ ExtractIdle /\ DetectIdle /\ CorrectIdle /\ ReplaceIdle
    /\ GraphIdle

NextRebel == ParseRebelOutput

SpecRebel == InitRebel /\ [][NextRebel]_vars

\* the positions of text where a <triplet> token starts
TripletStarts(text) == { i \in 1..Len(text) : MatchAt(text, TripletToken, i) }

\* the triplet segments of text: the text after each <triplet> token up to
\* the next one, without the tokens <s>, </s> and <pad>
SegmentsOf(text) ==
    LET starts == TripletStarts(text)
        nth(n) == CHOOSE i \in starts : Cardinality({ j \in starts : j < i }) = n - 1
        stop(n) == IF n = Cardinality(starts) THEN Len(text) ELSE nth(n + 1) - 1
    IN  [ n \in 1..Cardinality(starts) |->
            str_replace(str_replace(str_replace(
                SubSeq(text, nth(n) + Len(TripletToken), stop(n)),
                BosToken, <<>>), EosToken, <<>>), PadToken, <<>>) ]

\* plain text: no marker character, and not blank
PlainField(field) ==
    /\ \A i \in 1..Len(field) : field[i] \notin {"<", ">", "|"}
    /\ \E i \in 1..Len(field) : ~IsWhitespace(field[i])

\* seg follows the grammar head <subj> tail <obj> relation, with the subject
\* token at i and the object token at j
FollowsGrammar(seg, i, j) ==
    /\ MatchAt(seg, SubjToken, i)
    /\ MatchAt(seg, ObjToken, j)
    /\ i + Len(SubjToken) <= j
    /\ PlainField(SubSeq(seg, 1, i - 1))
    /\ PlainField(SubSeq(seg, i + Len(SubjToken), j - 1))
    /\ PlainField(SubSeq(seg, j + Len(ObjToken), Len(seg)))

WellFormedSegment(seg) == \E i, j \in 1..Len(seg) : FollowsGrammar(seg, i, j)

\* the record of a well-formed segment
SegmentRecord(seg) ==
    LET ij == CHOOSE ij \in (1..Len(seg)) \X (1..Len(seg)) : FollowsGrammar(seg, ij[1], ij[2])
    IN  [head |-> strip(SubSeq(seg, 1, ij[1] - 1)),
         type |-> strip(SubSeq(seg, ij[2] + Len(ObjToken), Len(seg))),
         tail |-> strip(SubSeq(seg, ij[1] + Len(SubjToken), ij[2] - 1))]

\* the records of the well-formed segments among the first n, in order
RECURSIVE WellFormedRecords(_, _)
WellFormedRecords(segs, n) ==
    IF n = 0 THEN <<>>
    ELSE WellFormedRecords(segs, n - 1)
             \o (IF WellFormedSegment(segs[n]) THEN <<SegmentRecord(segs[n])>> ELSE <<>>)

\* C16: when every triplet segment of the decoded output is well-formed or
\* has no object marker, _parse_rebel_output returns, without an error,
\* exactly the records of the well-formed segments, in order: a segment
\* without object marker yields no record and leaves the records of its
\* neighbours, before and after it, as they are.
C16_TruncatedSegmentYieldsNoRecord ==
    LET segs == SegmentsOf(decoded)
    IN  (/\ entry = "parse_rebel_output"
         /\ pc = "done"
         /\ \A n \in 1..Len(segs) :
               WellFormedSegment(segs[n]) \/ ~IsSubstring(ObjToken, segs[n]))
        => /\ error = "none"
           /\ triplets = WellFormedRecords(segs, Len(segs))

\* one well-formed segment followed by one truncated after its tail gave
\* exactly one record
C16_Witness ==
    /\ entry = "parse_rebel_output"
    /\ pc = "done"
    /\ Len(SegmentsOf(decoded)) = 2
    /\ WellFormedSegment(SegmentsOf(decoded)[1])
    /\ ~IsSubstring(ObjToken, SegmentsOf(decoded)[2])
    /\ IsSubstring(SubjToken, SegmentsOf(decoded)[2])
    /\ Len(triplets) = 1
    /\ triplets[1] = SegmentRecord(SegmentsOf(decoded)[1])

\* one truncated segment followed by one well-formed gave exactly one record
C16_WitnessTruncatedFirst ==
    /\ entry = "parse_rebel_output"
    /\ pc = "done"
    /\ Len(SegmentsOf(decoded)) = 2
    /\ ~IsSubstring(ObjToken, SegmentsOf(decoded)[1])
    /\ IsSubstring(SubjToken, SegmentsOf(decoded)[1])
    /\ WellFormedSegment(SegmentsOf(decoded)[2])
    /\ Len(triplets) = 1
    /\ triplets[1] = SegmentRecord(SegmentsOf(decoded)[2])

\* C28: for a decoded output whose triplet segments are all well-formed,
\* _parse_rebel_output returns one record per segment, the n-th record being
\* that of the n-th segment, so that equal segments give equal records and
\* none is removed; and every record it returns, for any output, has a head,
\* a tail and a relation that are not empty.
C28_OrderKeptNoDedup ==
    (entry = "parse_rebel_output" /\ pc = "done") =>
        /\ \A n \in 1..Len(triplets) :
              triplets[n].head # <<>> /\ triplets[n].tail # <<>> /\ triplets[n].type # <<>>
        /\ LET segs == SegmentsOf(decoded)
           IN  (\A n \in 1..Len(segs) : WellFormedSegment(segs[n])) =>
                   /\ Len(triplets) = Len(segs)
                   /\ \A n \in 1..Len(segs) : triplets[n] = SegmentRecord(segs[n])

\* two equal well-formed segments gave two equal records
C28_Witness ==
    /\ entry = "parse_rebel_output"
    /\ pc = "done"
    /\ Len(SegmentsOf(decoded)) = 2
    /\ SegmentsOf(decoded)[1] = SegmentsOf(decoded)[2]
    /\ WellFormedSegment(SegmentsOf(decoded)[1])
    /\ Len(triplets) = 2
    /\ triplets[1] = triplets[2]

\* two different well-formed segments gave their two records in stream order
C28_WitnessOrder ==
    /\ entry = "parse_rebel_output"
    /\ pc = "done"
    /\ Len(SegmentsOf(decoded)) = 2
    /\ \A n \in 1..2 : WellFormedSegment(SegmentsOf(decoded)[n])
    /\ Len(triplets) = 2
    /\ triplets[1] # triplets[2]
    /\ triplets[1] = SegmentRecord(SegmentsOf(decoded)[1])
    /\ triplets[2] = SegmentRecord(SegmentsOf(decoded)[2])

\* C20: every record _parse_rebel_output emits takes its head, its tail and
\* its relation from one triplet segment of the decoded output: the head from
\* before the segment's subject token, the tail and the relation from after it.
C20_RecordFromOneSegment ==
    (entry = "parse_rebel_output" /\ pc = "done") =>
        \A n \in 1..Len(triplets) :
            \E m \in 1..Len(SegmentsOf(decoded)) :
                /\ IsSubstring(triplets[n].head, SegmentsOf(decoded)[m])
                /\ IsSubstring(triplets[n].tail, SegmentsOf(decoded)[m])
                /\ IsSubstring(triplets[n].type, SegmentsOf(decoded)[m])

---------------------------------------------------------------------------
(* Pipeline orchestrator: src/grapheval/pipeline/pipeline.py               *)

triple_to_dict(triple) ==
    [head |-> triple.head.text, relation |-> triple.relation, tail |-> triple.tail.text]

judgement_to_dict(j) ==
    [triple |-> triple_to_dict(j.triple),
     label |-> j.nli_result.label,
     scores |-> j.nli_result.scores,
     is_hallucination |-> j.is_hallucination]

corrected_to_dict(c) ==
    [original |-> triple_to_dict(c.original), corrected |-> triple_to_dict(c.corrected)]

PipelineResult(text, kg, hallucinated, corrected, corrected_text) ==
    [original_output |-> text,
     kg_triples |-> kg,
     hallucinated_triples |-> hallucinated,
     corrected_triples |-> corrected,
     corrected_output |-> corrected_text]

\* the flagged judgements in the opposite order, as an unordered collection
\* may yield them
FlaggedReversed(js) ==
    LET f == SelectSeq(js, LAMBDA j : j.is_hallucination)
    IN  [ i \in 1..Len(f) |-> f[Len(f) + 1 - i] ]

\* every judged triple taken as hallucinated
FlaggedOrNot(js) == js

\* [x for x in seq if keep(x)]
Flagged(js) == SelectSeq(js, LAMBDA j : j.is_hallucination)

\* the correction stage entered whatever the judge found
AlwaysCorrect(hallucinated_triples) == TRUE

\* if hallucinated_triples:
NeedsCorrection(hallucinated_triples) == hallucinated_triples # <<>>

\* run(llm_output, context) is called: its signature has no other parameter,
\* a call that passes a keyword argument ends in TypeError before the body
RunCall ==
    /\ pc = "run"
    /\ IF DOMAIN kwargs # {}
       THEN pc' = "raised" /\ error' = "TypeError"
       ELSE pc' = "run_extract" /\ UNCHANGED error
    /\ UNCHANGED <<entry, kwargs, graphVars, runVars, context, calls, extractVars, detectVars,
                   correctVars, replaceVars, demoVars>>

\* run, step 1: extract_kg_with_llm builds the prompt and calls the backend
RunExtract ==
    /\ pc = "run_extract"
    /\ \E raw_response \in RunExtractionResponses :
          /\ calls' = Append(calls, [fn |-> "complete",
                                     arg |-> build_extraction_prompt(llm_output),
                                     returned |-> raw_response])
          /\ response_text' = raw_response
    /\ pc' = "parse_extraction_response"
    /\ UNCHANGED <<entry, kwargs, graphVars, error, runVars, context, extraction, detectVars, correctVars,
                   replaceVars, demoVars>>

\* run, step 2: detect_hallucinations is called on extraction.triples with the
\* default thresholds
RunDetect ==
    /\ pc = "run_detect"
    /\ triples' = extraction[1].triples
    /\ contradiction_threshold' = DefaultContradictionThreshold
    /\ neutral_threshold' = DefaultNeutralThreshold
    /\ pc' = "detect_hallucinations"
    /\ UNCHANGED <<entry, kwargs, graphVars, error, runVars, context, calls, extractVars, judgements,
                   cb_results, correctVars, replaceVars, demoVars>>

\* run, after the judge: the hallucinated triples are selected and, if there
\* are any, correct_hallucinations is called
RunFilter ==
    /\ pc = "run_filter"
    /\ LET hallucinated_triples ==
               [ i \in 1..Len(Flagged(judgements)) |-> Flagged(judgements)[i].triple ]
       IN  /\ hallucinations' = hallucinated_triples
           /\ corrected_triple_objs' = <<>>
           /\ corrected_output' = llm_output
           /\ IF NeedsCorrection(hallucinated_triples)
              THEN /\ results' = <<>>
                   /\ entity_refs' = <<>>
                   /\ ch_index' = 1
                   /\ pc' = "correct_hallucinations"
              ELSE /\ pc' = "run_report"
                   /\ UNCHANGED <<results, entity_refs, ch_index>>
    /\ UNCHANGED <<entry, kwargs, graphVars, error, runVars, context, calls, extractVars, detectVars,
                   corrected_triples, original_output, rt_corrected_output, k,
                   substitutions, demoVars>>

\* run, after the corrections: replace_triples is called
RunRepair ==
    /\ pc = "run_repair"
    /\ corrected_triples' =
           [ i \in 1..Len(corrected_triple_objs) |-> corrected_triple_objs[i].corrected ]
    /\ original_output' = llm_output
    /\ pc' = "replace_triples"
    /\ UNCHANGED <<entry, kwargs, graphVars, error, runVars, context, calls, extractVars, detectVars,
                   correctVars, rt_corrected_output, k, substitutions, corrected_output,
                   demoVars>>

\* run, last: the PipelineResult is built and returned
RunReport ==
    /\ pc = "run_report"
    /\ report' = <<PipelineResult(
                      llm_output,
                      [ i \in 1..Len(triples) |-> triple_to_dict(triples[i]) ],
                      [ i \in 1..Len(Flagged(judgements)) |->
                          judgement_to_dict(Flagged(judgements)[i]) ],
                      [ i \in 1..Len(corrected_triple_objs) |->
                          corrected_to_dict(corrected_triple_objs[i]) ],
                      corrected_output)>>
    /\ pc' = "done"
    /\ UNCHANGED <<entry, kwargs, graphVars, error, llm_output, context, calls, extractVars, detectVars,
                   correctVars, replaceVars, demoVars>>

Init ==
    /\ entry = "run"
    /\ pc = "run"
    /\ error = "none"
    /\ kwargs \in RunKwargs
    /\ llm_output \in RunTexts
    /\ context \in Contexts
    /\ calls = <<>>
    /\ report = <<>>
    /\ hallucinations = <<>>
    /\ ExtractIdle /\ DetectIdle /\ CorrectIdle /\ ReplaceIdle /\ DemoIdle
    /\ GraphIdle

Next ==
    \/ RunCall
    \/ RunExtract
    \/ ParseExtraction
    \/ RunDetect
    \/ Detect
    \/ RunFilter
    \/ CorrectStep
    \/ CorrectReturn
    \/ RunRepair
    \/ ReplaceEnter
    \/ ReplaceStep
    \/ ReplaceReturn
    \/ RunReport

Spec == Init /\ [][Next]_vars

\* the judge has answered during this run
Judged == entry = "run" /\ \E i \in 1..Len(calls) : calls[i].fn = "classify_batch"

\* calls[i] is a request to the correction backend
IsCorrectionCall(i) == calls[i].fn = "complete" /\ calls[i].arg.prompt = "correction"

\* C2: in a run where the judge flags no triple (also when no triple was
\* extracted) the correction backend is never called, replace_triples is never
\* entered, and the report holds the input text as corrected_output and an
\* empty corrected_triples.
C2_NoHallucinationShortCircuit ==
    (Judged /\ \A i \in 1..Len(judgements) : ~judgements[i].is_hallucination) =>
        /\ \A i \in 1..Len(calls) : ~IsCorrectionCall(i)
        /\ pc \in {"run_filter", "run_report", "done"}
        /\ k = 0
        /\ substitutions = 0
        /\ error = "none"
        /\ pc = "done" =>
              /\ Len(report) = 1
              /\ report[1].corrected_output = llm_output
              /\ report[1].corrected_triples = <<>>
              /\ report[1].hallucinated_triples = <<>>

\* a run over two extracted triples, neither of them flagged, has reported
C2_Witness ==
    /\ entry = "run"
    /\ pc = "done"
    /\ Len(judgements) = 2
    /\ \A i \in 1..2 : ~judgements[i].is_hallucination
    /\ Len(report) = 1
    /\ report[1].corrected_output = llm_output

\* C10: once the correction backend has answered a request with something
\* that does not decode to an object, the run has ended in an error: no list
\* of corrections was returned, no correction stands in for the triple of that
\* request, nothing was replaced and no report is produced.
C10_CorrectionDecodeFailureIsFatal ==
    \A i \in 1..Len(calls) :
        (IsCorrectionCall(i) /\ calls[i].returned.kind # "object") =>
            /\ i = Len(calls)
            /\ pc = "raised"
            /\ error \in {"ValueError", "AttributeError"}
            /\ error = "ValueError" <=> calls[i].returned.kind = "undecodable"
            /\ corrected_triple_objs = <<>>
            /\ Len(results) = ch_index - 1
            /\ ch_index <= Len(hallucinations)
            /\ k = 0
            /\ corrected_output = llm_output
            /\ report = <<>>

\* of two hallucinated triples the first was corrected and the second
\* request was answered with text that is not JSON
C10_Witness ==
    /\ entry = "run"
    /\ pc = "raised"
    /\ Len(hallucinations) = 2
    /\ Len(results) = 1
    /\ IsCorrectionCall(Len(calls))
    /\ calls[Len(calls)].returned.kind = "undecodable"

\* the stage a recorded call belongs to: 1 extraction, 2 judge, 3 correction
StageOfCall(i) ==
    IF calls[i].fn = "complete" /\ calls[i].arg.prompt = "extraction" THEN 1
    ELSE IF IsCorrectionCall(i) THEN 3
    ELSE 2

\* the position of control in the order of run's steps
PcRank(p) ==
    CASE p = "run"                       -> 0
      [] p = "run_extract"               -> 1
      [] p = "parse_extraction_response" -> 2
      [] p = "run_detect"                -> 3
      [] p = "detect_hallucinations"     -> 4
      [] p = "run_filter"                -> 5
      [] p = "correct_hallucinations"    -> 6
      [] p = "run_repair"                -> 7
      [] p = "replace_triples"           -> 8
      [] p = "replace_loop"              -> 9
      [] p = "run_report"                -> 10
      [] p = "done"                      -> 11
      [] p = "raised"                    -> 12

\* what the record of calls and the state say about the order of the stages
StagesInOrder ==
    /\ \A i, j \in 1..Len(calls) : i < j => StageOfCall(i) <= StageOfCall(j)
    /\ \A i \in 1..Len(calls) : StageOfCall(i) = 1 => i = 1
    /\ Cardinality({ i \in 1..Len(calls) : calls[i].fn = "classify_batch" }) <= 1
    /\ \A i \in 1..Len(calls) :
          StageOfCall(i) = 2 => /\ StageOfCall(1) = 1
                                /\ extraction # <<>>
    /\ \A i \in 1..Len(calls) :
          StageOfCall(i) = 3 =>
              /\ \E j \in 1..(i - 1) : calls[j].fn = "classify_batch"
              /\ \E j \in 1..Len(judgements) : judgements[j].is_hallucination
    /\ (k > 0 \/ substitutions > 0) =>
          /\ hallucinations # <<>>
          /\ Len(corrected_triple_objs) = Len(hallucinations)
          /\ Cardinality({ i \in 1..Len(calls) : StageOfCall(i) = 3 }) = Len(hallucinations)
    /\ report # <<>> <=> pc = "done"
    /\ pc = "done" => \E i \in 1..Len(calls) : calls[i].fn = "classify_batch"

\* control only moves forward; it stays in place only inside the loop of
\* correct_hallucinations and the loop of replace_triples
StagesStep ==
    /\ PcRank(pc') >= PcRank(pc)
    /\ pc' = pc => pc \in {"correct_hallucinations", "replace_loop"}
    /\ Len(calls') >= Len(calls)
    /\ SubSeq(calls', 1, Len(calls)) = calls

\* C13: in every run the stages execute in the order extraction, judge,
\* correction, repair, report, each at most once and the last three only if a
\* triple is flagged: the extraction call precedes the classifier's calls,
\* which precede every correction request; all correction requests are
\* complete before the first substitution; the report is built last.
C13_StagesStrictlySequential == []StagesInOrder /\ [][StagesStep]_vars

\* a run that corrected and replaced two hallucinated triples has reported
C13_Witness ==
    /\ entry = "run"
    /\ pc = "done"
    /\ Len(hallucinations) = 2
    /\ substitutions = 2
    /\ Len(report) = 1
    /\ Cardinality({ i \in 1..Len(calls) : StageOfCall(i) = 2 }) > 1

\* a fatal condition has occurred in calls[i]: the extraction response, once
\* handed to parse_extraction_response and parsed, or a correction response
\* does not decode to an object, or an inference label is unknown
FatalCall(i) ==
    \/ /\ calls[i].fn = "complete"
       /\ calls[i].arg.prompt = "extraction"
       /\ pc # "parse_extraction_response"
       /\ calls[i].returned.kind # "object"
    \/ /\ IsCorrectionCall(i)
       /\ calls[i].returned.kind # "object"
    \/ \E label \in BackendLabels(i) : ~RecognizedSpelling(label)

\* replace_triples was entered with lists of different lengths
FatalMismatch ==
    /\ pc \in {"replace_loop", "run_report", "done", "raised"}
    /\ original_output # <<>>
    /\ Len(hallucinations) # Len(corrected_triples)

\* what holds once a fatal condition has occurred
FatalTerminates ==
    /\ \A i \in 1..Len(calls) :
          FatalCall(i) =>
              /\ pc = "raised"
              /\ error \in {"ValueError", "AttributeError"}
              /\ i = Len(calls)
              /\ report = <<>>
              /\ corrected_triple_objs = <<>>
              /\ substitutions = 0
              /\ StageOfCall(i) = 1 => extraction = <<>> /\ triples = <<>>
              /\ StageOfCall(i) <= 2 => judgements = <<>> /\ hallucinations = <<>>
    /\ FatalMismatch => pc = "raised" /\ error = "ValueError" /\ report = <<>>
    /\ pc = "raised" => error # "none" /\ report = <<>>
    /\ error # "none" => pc = "raised"

\* C14: a fatal condition in a stage of run (an extraction response that does
\* not decode, an unknown inference label, a correction response that does not
\* decode, lists of different lengths in the repairer) ends the run in the
\* error: no later stage runs, no backend call follows, no report is
\* returned, and nothing happens after the error.
C14_FatalErrorTerminatesRun == []FatalTerminates /\ [][pc # "raised"]_vars

\* the extraction response was not JSON: the run ended before the judge
C14_Witness ==
    /\ entry = "run"
    /\ pc = "raised"
    /\ error = "ValueError"
    /\ Len(calls) = 1
    /\ calls[1].returned.kind = "undecodable"

\* the classifier met an unknown label: the run ended with two triples
\* extracted and none corrected
C14_WitnessLabel ==
    /\ entry = "run"
    /\ pc = "raised"
    /\ Len(triples) = 2
    /\ \E label \in BackendLabels(Len(calls)) : ~RecognizedSpelling(label)

\* the backends answered equal requests equally during this run
SameRequestSameResponse ==
    \A i, j \in 1..Len(calls) :
        (calls[i].fn = calls[j].fn /\ calls[i].arg = calls[j].arg)
            => calls[i].returned = calls[j].returned

\* what the backend answered to a request during this run
Answer(fn, arg) ==
    calls[CHOOSE i \in 1..Len(calls) : calls[i].fn = fn /\ calls[i].arg = arg].returned

\* the report of a second run on the same llm_output and context, against
\* backends that answer each request as they did in this run
SecondRunReport ==
    LET ext == parse_extraction_response(
                   Answer("complete", build_extraction_prompt(llm_output))).value[1]
        nli == Answer("classify_batch", detect_pairs(ext.triples, context))
        js  == [ i \in 1..Len(ext.triples) |->
                   TripleNLIJudgement(ext.triples[i], nli[i],
                       \/ dict_get(nli[i].scores, "contradiction", 0)
                              >= DefaultContradictionThreshold
                       \/ dict_get(nli[i].scores, "neutral", 0)
                              >= DefaultNeutralThreshold) ]
        fl  == SelectSeq(js, LAMBDA j : j.is_hallucination)
        cs  == [ i \in 1..Len(fl) |->
                   parse_single_corrected_triple(
                       Answer("complete", build_correction_prompt(fl[i].triple, context)),
                       fl[i].triple).value[1] ]
        dict(t) == [head |-> t.head.text, relation |-> t.relation, tail |-> t.tail.text]
    IN  [original_output |-> llm_output,
         kg_triples |-> [ i \in 1..Len(ext.triples) |-> dict(ext.triples[i]) ],
         hallucinated_triples |->
             [ i \in 1..Len(fl) |->
                 [triple |-> dict(fl[i].triple),
                  label |-> fl[i].nli_result.label,
                  scores |-> fl[i].nli_result.scores,
                  is_hallucination |-> TRUE] ],
         corrected_triples |->
             [ i \in 1..Len(fl) |-> [original |-> dict(fl[i].triple),
                                      corrected |-> dict(cs[i])] ],
         corrected_output |->
             FoldReplace(llm_output, [ i \in 1..Len(fl) |-> fl[i].triple ], cs, Len(fl))]

\* C15: the report of a run is determined by llm_output, context and what the
\* backends answer to each request: a second run with the same inputs against
\* backends answering equal requests equally returns the same kg_triples,
\* hallucinated_triples (labels, scores, flags), corrected_triples and
\* corrected_output.
C15_RunIsDeterministic ==
    (entry = "run" /\ pc = "done" /\ SameRequestSameResponse) =>
        /\ Len(report) = 1
        /\ report[1] = SecondRunReport

\* a run reported after correcting the same hallucinated triple twice, the
\* backend having answered the two equal requests equally
C15_Witness ==
    /\ entry = "run"
    /\ pc = "done"
    /\ SameRequestSameResponse
    /\ Len(hallucinations) = 2
    /\ hallucinations[1] = hallucinations[2]
    /\ Len(report[1].corrected_triples) = 2
    /\ report[1].corrected_output # llm_output

\* a run reported after correcting two different hallucinated triples
C15_WitnessTwoTriples ==
    /\ entry = "run"
    /\ pc = "done"
    /\ SameRequestSameResponse
    /\ Len(hallucinations) = 2
    /\ hallucinations[1] # hallucinations[2]
    /\ report[1].corrected_triples[1] # report[1].corrected_triples[2]


\* the requests sent to the correction backend so far, in order
CorrectionRequests ==
    LET cc == SelectSeq(calls, LAMBDA c : c.fn = "complete" /\ c.arg.prompt = "correction")
    IN  [ n \in 1..Len(cc) |-> cc[n].arg ]

\* the triples the judge marked is_hallucination, in the order of the judgements
JudgedHallucinated ==
    LET fl == SelectSeq(judgements, LAMBDA j : j.is_hallucination)
    IN  [ n \in 1..Len(fl) |-> fl[n].triple ]

\* C18: in a run, the n-th correction request is the request for the n-th
\* triple the judge marked is_hallucination, so that no request is issued for
\* a triple marked false; and in the report hallucinated_triples are the
\* marked judgements in the order of kg_triples, corrected_triples has the
\* same length, and the i-th correction's original is the i-th hallucinated
\* triple.
C18_CorrectionsOnlyForHallucinated ==
    entry = "run" =>
        /\ Len(CorrectionRequests) <= Len(JudgedHallucinated)
        /\ \A n \in 1..Len(CorrectionRequests) :
              CorrectionRequests[n] = build_correction_prompt(JudgedHallucinated[n], context)
        /\ pc = "done" =>
              /\ Len(report) = 1
              /\ Len(report[1].kg_triples) = Len(judgements)
              /\ \A i \in 1..Len(judgements) :
                    report[1].kg_triples[i] = triple_to_dict(judgements[i].triple)
              /\ Len(report[1].hallucinated_triples) = Len(JudgedHallucinated)
              /\ Len(report[1].corrected_triples) = Len(report[1].hallucinated_triples)
              /\ Len(CorrectionRequests) = Len(report[1].corrected_triples)
              /\ \A i \in 1..Len(report[1].hallucinated_triples) :
                    /\ report[1].hallucinated_triples[i].is_hallucination
                    /\ report[1].hallucinated_triples[i].triple
                           = triple_to_dict(JudgedHallucinated[i])
                    /\ report[1].corrected_triples[i].original
                           = report[1].hallucinated_triples[i].triple

\* a run over two extracted triples, of which the judge marked only the
\* second, has reported one correction after one correction request
C18_Witness ==
    /\ entry = "run"
    /\ pc = "done"
    /\ Len(judgements) = 2
    /\ ~judgements[1].is_hallucination
    /\ judgements[2].is_hallucination
    /\ Len(CorrectionRequests) = 1
    /\ Len(report[1].corrected_triples) = 1
    /\ report[1].corrected_triples[1].original = report[1].kg_triples[2]

\* the threshold the callee binds for key: the value the caller passed, or
\* 0.5 when the caller passed none
SuppliedOrDefault(key) == dict_get(kwargs, key, 50)

\* C19: the thresholds the judge applies are the ones the caller passed to
\* the entry point, detect_hallucinations or GraphEvalPipeline.run, and 0.5
\* for a threshold the caller did not pass: a call that passes thresholds is
\* accepted, and once the judge has judged, every is_hallucination was
\* computed with the caller's values.
C19_ThresholdsAreCallerSupplied ==
    entry \in {"detect_hallucinations", "run"} =>
        /\ error # "TypeError"
        /\ judgements # <<>> =>
              /\ contradiction_threshold = SuppliedOrDefault("contradiction_threshold")
              /\ neutral_threshold = SuppliedOrDefault("neutral_threshold")
              /\ \A i \in 1..Len(judgements) :
                    judgements[i].is_hallucination
                        <=> \/ dict_get(judgements[i].nli_result.scores, "contradiction", 0)
                                   >= SuppliedOrDefault("contradiction_threshold")
                            \/ dict_get(judgements[i].nli_result.scores, "neutral", 0)
                                   >= SuppliedOrDefault("neutral_threshold")

\* C21: an iteration of replace_triples over a pair whose original triple
\* is degenerate (empty head text, empty relation, empty tail text) leaves the
\* text being built as it was, whatever the corrected triple is.
C21_DegenerateOriginalSkipped ==
    [][(/\ entry = "replace_triples"
        /\ pc = "replace_loop"
        /\ k <= ZipLen(hallucinations, corrected_triples)
        /\ hallucinations[k] = DegenerateTriple)
       => rt_corrected_output' = rt_corrected_output]_vars

\* C22: every RelationTriple the core has created has a relation that is
\* not empty: the triples of an ExtractionResult built by
\* parse_extraction_response or from the REBEL records, the REBEL records
\* themselves, and the corrected triples built from the correction backend's
\* responses.
C22_RelationNeverEmpty ==
    /\ \A i \in 1..Len(extraction) :
          \A j \in 1..Len(extraction[i].triples) : extraction[i].triples[j].relation # <<>>
    /\ \A j \in 1..Len(all_triples) : all_triples[j].relation # <<>>
    /\ \A j \in 1..Len(triplets) : triplets[j].type # <<>>
    /\ \A j \in 1..Len(results) : results[j].corrected.relation # <<>>
    /\ \A j \in 1..Len(corrected_triple_objs) :
          corrected_triple_objs[j].corrected.relation # <<>>

\* the run has ended in the error of the correction request for the triple
\* at ch_index
CorrectionFailed ==
    /\ entry = "run"
    /\ pc = "raised"
    /\ calls # <<>>
    /\ IsCorrectionCall(Len(calls))
    /\ calls[Len(calls)].returned.kind # "object"

\* C23: the error of a failed correction request that reaches the caller of
\* run tells the index of the triple concerned: it is the exception
\* _parse_single_corrected_triple raises for the response and that triple, and
\* the same response raises a different one for every other triple of the list.
C23_ErrorTellsTripleIndex ==
    CorrectionFailed =>
        LET raw == calls[Len(calls)].returned
            raised == corrected_triple_exception(raw, hallucinations[ch_index])
        IN  /\ error = raised.type
            /\ \A j \in 1..Len(hallucinations) :
                  j # ch_index =>
                      corrected_triple_exception(raw, hallucinations[j]) # raised

\* every triple the later stages hold is the extracted triple it was taken
\* from, with its texts, types, relation and confidence
ExtractedTriplesIntact ==
    entry = "run" =>
        /\ triples # <<>> => triples = extraction[1].triples
        /\ judgements # <<>> =>
              /\ Len(judgements) = Len(extraction[1].triples)
              /\ \A i \in 1..Len(judgements) :
                    judgements[i].triple = extraction[1].triples[i]
        /\ \A i \in 1..Len(hallucinations) :
              \E j \in 1..Len(judgements) :
                  /\ judgements[j].is_hallucination
                  /\ hallucinations[i] = extraction[1].triples[j]
        /\ \A i \in 1..Len(results) : results[i].original = hallucinations[i]
        /\ \A i \in 1..Len(corrected_triple_objs) :
              corrected_triple_objs[i].original = hallucinations[i]
        /\ pc = "done" =>
              /\ Len(report[1].kg_triples) = Len(extraction[1].triples)
              /\ \A i \in 1..Len(extraction[1].triples) :
                    report[1].kg_triples[i] = triple_to_dict(extraction[1].triples[i])
              /\ \A i \in 1..Len(report[1].corrected_triples) :
                    report[1].corrected_triples[i].original = triple_to_dict(hallucinations[i])

\* C24: once the ExtractionResult of a run exists, no later step changes it,
\* and the judge, the correction engine, the repairer and the report hold its
\* triples unchanged: the judgements' triples, the hallucinated triples and
\* the corrections' originals are the extracted triples, and the report's
\* kg_triples are the extracted triples in order.
C24_ExtractionNeverMutated ==
    /\ []ExtractedTriplesIntact
    /\ [][(entry = "run" /\ extraction # <<>>) => extraction' = extraction]_vars

\* a run has reported after two extracted triples were judged hallucinated,
\* corrected to other triples and replaced in the text
C24_Witness ==
    /\ entry = "run"
    /\ pc = "done"
    /\ Len(extraction[1].triples) = 2
    /\ Len(hallucinations) = 2
    /\ substitutions = 2
    /\ \A i \in 1..2 : corrected_triple_objs[i].corrected # extraction[1].triples[i]
    /\ report[1].corrected_output # llm_output

\* the Entity objects the caller holds in the hallucinated triples
OriginalEntityRefs ==
    { original_entity_ref(i, role) : i \in 1..Len(hallucinations), role \in {"head", "tail"} }

\* C25: in every correction correct_hallucinations has built, the corrected
\* head and tail carry the type of the original's head and tail, and they
\* are Entity objects constructed for this correction: none is an object of
\* a hallucinated triple, also when the corrected text is the original's.
C25_CorrectedEntitiesAreNewWithOriginalType ==
    /\ Len(entity_refs) = Len(results)
    /\ \A i \in 1..Len(results) :
          /\ results[i].corrected.head.type = results[i].original.head.type
          /\ results[i].corrected.tail.type = results[i].original.tail.type
          /\ entity_refs[i].head \notin OriginalEntityRefs
          /\ entity_refs[i].tail \notin OriginalEntityRefs
          /\ entity_refs[i].head # entity_refs[i].tail
          /\ \A j \in 1..Len(results) :
                j # i => {entity_refs[i].head, entity_refs[i].tail}
                             \cap {entity_refs[j].head, entity_refs[j].tail} = {}

\* a triple with a typed head was corrected by a response that gave only a
\* relation: the corrected head has the original's text and type
C25_Witness ==
    /\ entry = "correct_hallucinations"
    /\ pc = "done"
    /\ \E i \in 1..Len(results) :
          /\ results[i].original.head.type = "PER"
          /\ results[i].corrected.head = results[i].original.head
          /\ results[i].corrected.relation # results[i].original.relation
          /\ entity_refs[i].head = constructed_entity_ref(i, "head")

\* the records of classify_batch calls among the calls made so far
BatchCalls == SelectSeq(calls, LAMBDA c : c.fn = "classify_batch")

\* C27: an invocation of detect_hallucinations makes one classify_batch call
\* and no second one; the call has one (premise, hypothesis) pair per triple,
\* in the order of the triples, every premise is the context and the i-th
\* hypothesis is the head text, a space, the relation, a space, the tail text
\* and a period of the i-th triple.
C27_OneBatchedCall ==
    entry = "detect_hallucinations" =>
        /\ Len(BatchCalls) <= 1
        /\ pc = "done" => Len(BatchCalls) = 1
        /\ pc = "detect_hallucinations" => calls = <<>>
        /\ \A n \in 1..Len(BatchCalls) :
              /\ Len(BatchCalls[n].arg) = Len(triples)
              /\ \A i \in 1..Len(triples) :
                    /\ BatchCalls[n].arg[i][1] = context
                    /\ BatchCalls[n].arg[i][2] =
                           triples[i].head.text \o <<" ">> \o triples[i].relation
                               \o <<" ">> \o triples[i].tail.text \o <<".">>

\* two different triples were judged after one call with two pairs
C27_Witness ==
    /\ entry = "detect_hallucinations"
    /\ pc = "done"
    /\ Len(triples) = 2
    /\ triples[1] # triples[2]
    /\ Len(BatchCalls) = 1
    /\ Len(BatchCalls[1].arg) = 2
    /\ BatchCalls[1].arg[1][2] # BatchCalls[1].arg[2][2]

\* no triple was handed in: the one call has no pair
C27_WitnessNoTriple ==
    /\ entry = "detect_hallucinations"
    /\ pc = "done"
    /\ triples = <<>>
    /\ Len(BatchCalls) = 1
    /\ BatchCalls[1].arg = <<>>

\* the classifier of this invocation asked the LLM backend: it is the
\* LLMNLIClient
JudgedByLLMNLIClient ==
    \E i \in 1..Len(calls) : calls[i].fn = "complete" /\ calls[i].arg.prompt = "nli"

\* C29: when detect_hallucinations has judged with the LLMNLIClient, every
\* judgement's distribution has score 1.0 on its label and 0.0 on the other
\* two labels, and under the default thresholds the triple is flagged exactly
\* when the label is contradiction or neutral, never when it is entailment.
C29_OneHotFlagsByLabel ==
    (entry = "detect_hallucinations" /\ pc = "done" /\ JudgedByLLMNLIClient) =>
        \A i \in 1..Len(judgements) :
            LET r == judgements[i].nli_result
            IN  /\ DOMAIN r.scores = {"entailment", "contradiction", "neutral"}
                /\ r.label \in DOMAIN r.scores
                /\ \A l \in DOMAIN r.scores : r.scores[l] = IF l = r.label THEN 100 ELSE 0
                /\ (contradiction_threshold = 50 /\ neutral_threshold = 50) =>
                      (judgements[i].is_hallucination
                           <=> r.label \in {"contradiction", "neutral"})

\* under the default thresholds the LLMNLIClient labelled one triple
\* entailment, not flagged, and the other neutral, flagged
C29_Witness ==
    /\ entry = "detect_hallucinations"
    /\ pc = "done"
    /\ JudgedByLLMNLIClient
    /\ DOMAIN kwargs = {}
    /\ Len(judgements) = 2
    /\ \E i, j \in 1..2 :
          /\ judgements[i].nli_result.label = "entailment"
          /\ ~judgements[i].is_hallucination
          /\ judgements[j].nli_result.label = "neutral"
          /\ judgements[j].is_hallucination

---------------------------------------------------------------------------
(* build_networkx_graph called by an external caller.                      *)

\* entities of the ExtractionResults handed to build_networkx_graph: X typed
\* PER, Y untyped, X typed ORG
GraphEntities == { Entity(X, "PER"), Entity(Y, NoType), Entity(X, "ORG") }

\* their triples: X w Y and X a Y (the same pair, two relations), Y w X (the
\* pair reversed), Y w Z with confidence 0.8
GraphTriples ==
    { RelationTriple(Entity(X, "PER"), w, Entity(Y, NoType)),
      RelationTriple(Entity(X, "PER"), a, Entity(Y, NoType)),
      T(Y, w, X),
      [T(Y, w, Z) EXCEPT !.confidence = 80] }

GraphResults ==
    { ExtractionResult(es, ts) : es \in SeqsUpTo(GraphEntities, MaxRecords),
                                 ts \in SeqsUpTo(GraphTriples, MaxTriples) }

\* build_networkx_graph, called by an external caller or by persist_kg
BuildGraph ==
    /\ pc = "build_networkx_graph"
    /\ G' = build_networkx_graph(extraction[1], directed)
    /\ pc' = "done"
    /\ UNCHANGED <<entry, kwargs, json_file, directed, error, runVars, context, calls, extractVars,
                   detectVars, correctVars, replaceVars, demoVars>>

InitGraph ==
    /\ entry = "build_networkx_graph"
    /\ pc = "build_networkx_graph"
    /\ error = "none"
    /\ kwargs = <<>>
    /\ context \in Contexts
    /\ calls = <<>>
    /\ response_text = [kind |-> "none"]
    /\ extraction \in { <<result>> : result \in GraphResults }
    /\ hallucinations = <<>>
    /\ directed \in BOOLEAN
    /\ G = <<>>
    /\ json_file = <<>>
    /\ RunIdle /\ DetectIdle /\ CorrectIdle /\ ReplaceIdle /\ DemoIdle

NextGraph == BuildGraph

SpecGraph == InitGraph /\ [][NextGraph]_vars

\* the node ids of a graph
graph_nodes(g) == { g.node[i].key : i \in 1..Len(g.node) }

\* the texts an ExtractionResult names: its entities' and its triples' heads
\* and tails
ResultTexts(result) ==
    { result.entities[i].text : i \in 1..Len(result.entities) }
    \cup { result.triples[i].head.text : i \in 1..Len(result.triples) }
    \cup { result.triples[i].tail.text : i \in 1..Len(result.triples) }

\* C30: the graph build_networkx_graph returns has exactly the texts of the
\* ExtractionResult's entities and triple heads and tails as nodes, and for
\* every triple an edge from its head text to its tail text whose relation
\* and confidence are the triple's; stated for the default, directed, graph.
C30_GraphRepresentsEveryTriple ==
    (entry = "build_networkx_graph" /\ pc = "done" /\ directed) =>
        /\ graph_nodes(G) = ResultTexts(extraction[1])
        /\ \A i \in 1..Len(extraction[1].triples) :
              LET triple == extraction[1].triples[i]
                  edge   == <<triple.head.text, triple.tail.text>>
              IN  /\ od_has(G.adj, edge)
                  /\ od_get(G.adj, edge).relation = triple.relation
                  /\ od_get(G.adj, edge).confidence = triple.confidence

\* the node part of C30 alone
C30_NodesAreTheTexts ==
    (entry = "build_networkx_graph" /\ pc = "done") =>
        graph_nodes(G) = ResultTexts(extraction[1])

=============================================================================
